---- MODULE Spec2Model ----
\* Verification model of the pycif component hierarchy:
\*   src/pycif/draw/Component.py  (Component, Subpolygon, Subcomponent and the
\*                                 two layer shorthand parsers; Compo.py is the
\*                                 same code under the names Compo/Subpoly/...)
\*   src/src/pycif/compo.py       (the second hierarchy: Compo.get_geoms)
EXTENDS Integers, Sequences, FiniteSets, TLC

\* ------------------------------------------------------------------ bounds
MaxInst == 2        \* component instances a design script builds
MaxParts == 3       \* attachments (subcomponents and subpolygons) in the whole program
MaxChain == 2       \* Options classes in a template's specialization chain

\* ------------------------------------------------------------- vocabulary
LayerNames == {"A", "B", "C"}
LayerOrder == <<"A", "B", "C">>      \* declaration order of the layer names
None       == "None"                 \* Python's None: the discard target

\* The layer sets of the templates the script instantiates; instance i is
\* built from template ((i-1) mod 3)+1:
\*   T = {A,B}, U = {C} (the flatten scenario of the specification), V = {A}.
Templates == << {"A", "B"}, {"C"}, {"A"} >>
TemplateOf(i) == Templates[((i - 1) % Len(Templates)) + 1]

Inst == 1..MaxInst

\* Layermap shorthands: None | str | dict  (Component.py line 20)
DictShorthands ==
    UNION { [K -> LayerNames \cup {None}] : K \in SUBSET LayerNames }
Shorthands ==
    {[kind |-> "none"]}
    \cup {[kind |-> "str", name |-> n] : n \in LayerNames}
    \cup {[kind |-> "dict", map |-> m] : m \in DictShorthands}

\* The shorthands the design script passes to add_subcomponent: absent, a
\* single name, and full mappings that are complete, partial, empty, name a
\* layer the child lacks, or write the discard explicitly.
ScriptShorthands ==
    { [kind |-> "none"],
      [kind |-> "str", name |-> "C"],
      [kind |-> "str", name |-> "A"],
      [kind |-> "dict", map |-> [k \in {"A", "B"} |-> IF k = "A" THEN "C" ELSE None]],
      [kind |-> "dict", map |-> [k \in {"A", "B"} |-> "C"]],
      [kind |-> "dict", map |-> [k \in {"A"} |-> "C"]],
      [kind |-> "dict", map |-> [k \in {"C"} |-> "A"]],
      [kind |-> "dict", map |-> [k \in {} |-> None]] }

\* Subpolygon layer shorthands: None | str  (Component.py line 21)
LayerShorthands == {None} \cup LayerNames

\* One-dimensional affine placements <<a, b>> : x |-> a*x + b
Identity   == <<1, 0>>
Placements == {<<2, 1>>}

\* Messages of the exceptions the code raises (all are plain Exception; the
\* message is what tells the kinds apart).
Ok                   == "ok"
ErrMustSpecify       == "You must specify how to map the layers"
ErrStrNotOneLayer    == "str layermap shorthand, but the child component doesn't have just one layer"
ErrStrNotInParent    == "str layermap shorthand, but that layer is not in the parent component"
ErrKeysNotSubset     == "Layermap keys are not a subset of child component layers"
ErrValuesNotSubset   == "Layermap values are not a subset of parent component layers"
ErrPolyMultiple      == "Could not map polygon: parent contains multiple layers"
ErrPolyNotFound      == "Could not map polygon: specified layer could not be found in the parent"
RecursionError       == "RecursionError"
KeyError             == "KeyError"

\* ------------------------------------------------------------------ state
VARIABLES
    pc,             \* pc[i]: "unbuilt" | "making" (inside _make) | "built"
    layers,         \* layers[i]: the instance's layer set (self.layers)
    subcomponents,  \* subcomponents[i]: Seq of [component, layermap]
    subpolygons,    \* subpolygons[i]: Seq of [polygon (object id), layer]
    transform,      \* transform[i]: the instance's placement (self.transform)
    heap,           \* heap[p]: coordinate of polygon object p
    flat,           \* the last get_subpolygons call and its returned list
    out,            \* the last attach / build call and how it ended
    args,           \* the inputs drawn for the resolver specification
    geoms,          \* compo.py: geoms[c] is the dict layer name -> list object
    subcompos,      \* compo.py: subcompos[c] is the Seq of proxied compos
    lists,          \* compo.py: lists[k] is the content of list object k
    got,            \* compo.py: the last get_geoms call and what it returned
    options,        \* options[i]: the instance's resolved options (self.options)
    trace,          \* the build in progress: what __init__ and _make did so far
    registry,       \* compo.py: the Options table of the template being registered
    bbox,           \* BBox.py: the BBox under test (its four bounds and _transformable)
    added,          \* BBox.py: the points handed to the BBox so far, in call order
    ret,            \* the last call of the BBox / marks / reducer worlds and its result
    marks,          \* compo.py: the instance's MarksContainer (self.marks)
    dicts           \* dicts[d]: the content of dict object d of the design script

geomVars == <<geoms, subcompos, lists, got>>
buildVars == <<options, trace, registry>>
boxVars == <<bbox, added, ret, marks, dicts>>
vars == <<pc, layers, subcomponents, subpolygons, transform, heap, flat, out, args,
          geoms, subcompos, lists, got, options, trace, registry,
          bbox, added, ret, marks, dicts>>

\* --------------------------------------------------------------- helpers
RECURSIVE SumLen(_, _)
SumLen(f, n) == IF n = 0 THEN 0 ELSE Len(f[n]) + SumLen(f, n - 1)

NumSubs   == SumLen(subcomponents, MaxInst)
NumStored == SumLen(subpolygons, MaxInst)
NumParts  == NumSubs + NumStored

\* The elements of set S in declaration order
SeqOfSet(S) == SelectSeq(LayerOrder, LAMBDA l : l \in S)

Sole(S) == CHOOSE x \in S : TRUE

\* flat.phase: "none" | "first" (a call returned) | "scribbled" (the caller
\* wrote into the returned polygons) | "again" (a second call on the same
\* instance returned after that); vals are the coordinates and layers the
\* call returned, prev those of the call before it.
NoFlat == [of |-> 0, phase |-> "none", err |-> Ok, res |-> <<>>,
           vals |-> <<>>, prev |-> <<>>]
NoArgs == [parent_layers |-> {}, child_layers |-> {}, shorthand |-> [kind |-> "none"]]

Outcome(op, status, w, d) ==
    [op |-> op, status |-> status, warnings |-> w, debugs |-> d]

\* ------------------------------------------- the layermap shorthand parser
\* Pad layermap (lines 509-518): every child layer the map does not mention is
\* mapped to None, with one log.warning each.
PadLayermap_nopad(child_layers, layermap) == layermap

PadLayermap(child_layers, layermap) ==
    [l \in child_layers \cup DOMAIN layermap |->
        IF l \in DOMAIN layermap THEN layermap[l] ELSE None]

\* What the parser hands back: the padded map, one warning per padded layer.
ParseFail(msg) == [status |-> msg, layermap |-> <<>>, warnings |-> 0, debugs |-> 0]
ParseDone(child_layers, m, d) ==
    [status   |-> Ok,
     layermap |-> PadLayermap(child_layers, m),
     warnings |-> Cardinality(child_layers \ DOMAIN m),
     debugs   |-> d]

\* Variants of the absent case: the subset test with its operands swapped, and
\* the sole-layer case left out
ParseAbsent_swapped(parent_layers, child_layers) ==
    IF parent_layers \subseteq child_layers
    THEN ParseDone(child_layers, [l \in child_layers |-> l], 0)
    ELSE IF Cardinality(parent_layers) = 1 /\ Cardinality(child_layers) = 1
    THEN ParseDone(child_layers, [l \in child_layers |-> Sole(parent_layers)], 1)
    ELSE ParseFail(ErrMustSpecify)

ParseAbsent_nosole(parent_layers, child_layers) ==
    IF child_layers \subseteq parent_layers
    THEN ParseDone(child_layers, [l \in child_layers |-> l], 0)
    ELSE ParseFail(ErrMustSpecify)

\* layermap_shorthand is None (lines 453-473); the sole-layer mapping is
\* reported with log.debug
ParseAbsent(parent_layers, child_layers) ==
    IF child_layers \subseteq parent_layers
    THEN ParseDone(child_layers, [l \in child_layers |-> l], 0)
    ELSE IF Cardinality(parent_layers) = 1 /\ Cardinality(child_layers) = 1
    THEN ParseDone(child_layers, [l \in child_layers |-> Sole(parent_layers)], 1)
    ELSE ParseFail(ErrMustSpecify)

\* Variant of the str case: the test of the child's layer count left out
ParseStr_nolen(parent_layers, child_layers, name) ==
    IF name \notin parent_layers THEN ParseFail(ErrStrNotInParent)
    ELSE ParseDone(child_layers, [l \in child_layers |-> name], 0)

\* layermap_shorthand is a str (lines 475-489)
ParseStr(parent_layers, child_layers, name) ==
    IF Cardinality(child_layers) # 1 THEN ParseFail(ErrStrNotOneLayer)
    ELSE IF name \notin parent_layers THEN ParseFail(ErrStrNotInParent)
    ELSE ParseDone(child_layers, [l \in child_layers |-> name], 0)

\* Variant of the dict case: the test of the values left out
ParseDict_novalues(parent_layers, child_layers, m) ==
    IF ~(DOMAIN m \subseteq child_layers) THEN ParseFail(ErrKeysNotSubset)
    ELSE ParseDone(child_layers, m, 0)

\* layermap_shorthand is a dict (lines 491-502)
ParseDict(parent_layers, child_layers, m) ==
    IF ~(DOMAIN m \subseteq child_layers) THEN ParseFail(ErrKeysNotSubset)
    ELSE IF ~({m[k] : k \in DOMAIN m} \subseteq parent_layers)
    THEN ParseFail(ErrValuesNotSubset)
    ELSE ParseDone(child_layers, m, 0)

parse_subcomponent_layermap_shorthand(parent_layers, child_layers, sh) ==
    IF sh.kind = "none" THEN ParseAbsent(parent_layers, child_layers)
    ELSE IF sh.kind = "str" THEN ParseStr(parent_layers, child_layers, sh.name)
    ELSE ParseDict(parent_layers, child_layers, sh.map)

\* ------------------------------------------ the subpolygon layer shorthand
\* Variants of the subpolygon layer parser: the membership test of the named
\* layer left out; the first layer taken whenever there is one
parse_subpolygon_layer_shorthand_nocheck(parent_layers, layer_shorthand) ==
    IF layer_shorthand = None THEN
        IF Cardinality(parent_layers) = 1
        THEN [status |-> Ok, layer |-> Sole(parent_layers), debugs |-> 1]
        ELSE [status |-> ErrPolyMultiple, layer |-> None, debugs |-> 0]
    ELSE [status |-> Ok, layer |-> layer_shorthand, debugs |-> 0]

parse_subpolygon_layer_shorthand_first(parent_layers, layer_shorthand) ==
    IF layer_shorthand = None THEN
        IF parent_layers # {}
        THEN [status |-> Ok, layer |-> Head(SeqOfSet(parent_layers)), debugs |-> 1]
        ELSE [status |-> ErrPolyMultiple, layer |-> None, debugs |-> 0]
    ELSE
        IF layer_shorthand \in parent_layers
        THEN [status |-> Ok, layer |-> layer_shorthand, debugs |-> 0]
        ELSE [status |-> ErrPolyNotFound, layer |-> None, debugs |-> 0]

\* parse_subpolygon_layer_shorthand (lines 523-564)
parse_subpolygon_layer_shorthand(parent_layers, layer_shorthand) ==
    IF layer_shorthand = None THEN
        IF Cardinality(parent_layers) = 1
        THEN [status |-> Ok, layer |-> Sole(parent_layers), debugs |-> 1]
        ELSE [status |-> ErrPolyMultiple, layer |-> None, debugs |-> 0]
    ELSE
        IF layer_shorthand \in parent_layers
        THEN [status |-> Ok, layer |-> layer_shorthand, debugs |-> 0]
        ELSE [status |-> ErrPolyNotFound, layer |-> None, debugs |-> 0]

\* ------------------------------------------------------ polygons and copies
\* Polygon.copy(): a new polygon object with the same coordinate
Polygon_copy(h, p) == [h |-> Append(h, h[p]), p |-> Len(h) + 1]

\* Polygon.apply_transform(t): moves the polygon object in place, returns it
ApplyPlacement(t, x) == t[1] * x + t[2]
Polygon_apply_transform(h, p, t) == [h EXCEPT ![p] = ApplyPlacement(t, h[p])]

\* Subpolygon.get_subpolygon(): Subpolygon(self.polygon.copy(), self.layer)
get_subpolygon(h, sp) ==
    LET c == Polygon_copy(h, sp.polygon)
    IN  [h |-> c.h, sp |-> [polygon |-> c.p, layer |-> sp.layer]]

\* Subpolygon.get_polygon(): self.polygon.copy()
get_polygon(h, sp) == Polygon_copy(h, sp.polygon)

\* Python's recursion limit, scaled to the model: a chain of nested
\* get_subpolygons frames longer than the number of instances is a cycle.
RecursionLimit == MaxInst

Failed(h, e) == [h |-> h, res |-> <<>>, err |-> e]

\* [x.get_subpolygon() for x in self.subpolygons]
RECURSIVE OwnSubpolys(_, _)
OwnSubpolys(h, s) ==
    IF s = <<>> THEN [h |-> h, res |-> <<>>]
    ELSE LET c    == get_subpolygon(h, Head(s))
             rest == OwnSubpolys(c.h, Tail(s))
         IN  [h |-> rest.h, res |-> <<c.sp>> \o rest.res]

\* Variant of the relabelling comprehension that neither looks the layer up
\* in the layermap nor filters: every entry keeps the layer it came with
RECURSIVE Relabel_raw(_, _, _, _, _)
Relabel_raw(h, s, lm, do_apply_transform, t) ==
    IF s = <<>> THEN [h |-> h, res |-> <<>>, err |-> Ok]
    ELSE LET c    == get_polygon(h, Head(s))
             h2   == IF do_apply_transform
                     THEN Polygon_apply_transform(c.h, c.p, t) ELSE c.h
             rest == Relabel_raw(h2, Tail(s), lm, do_apply_transform, t)
         IN  [h |-> rest.h,
              res |-> <<[polygon |-> c.p, layer |-> Head(s).layer]>> \o rest.res,
              err |-> Ok]

\* [Subpolygon(sp.get_polygon()[.apply_transform(t)], lm[sp.layer])
\*  for sp in s if lm[sp.layer] is not None]
RECURSIVE Relabel(_, _, _, _, _)
Relabel(h, s, lm, do_apply_transform, t) ==
    IF s = <<>> THEN [h |-> h, res |-> <<>>, err |-> Ok]
    ELSE IF Head(s).layer \notin DOMAIN lm THEN Failed(h, KeyError)
    ELSE IF lm[Head(s).layer] = None THEN Relabel(h, Tail(s), lm, do_apply_transform, t)
    ELSE LET c    == get_polygon(h, Head(s))
             h2   == IF do_apply_transform
                     THEN Polygon_apply_transform(c.h, c.p, t) ELSE c.h
             rest == Relabel(h2, Tail(s), lm, do_apply_transform, t)
         IN  IF rest.err # Ok THEN Failed(rest.h, rest.err)
             ELSE [h |-> rest.h,
                   res |-> <<[polygon |-> c.p, layer |-> lm[Head(s).layer]]>> \o rest.res,
                   err |-> Ok]

RECURSIVE Component_get_subpolygons(_, _, _)
RECURSIVE Subcomponent_get_subpolygons(_, _, _)
RECURSIVE InnerSubpolys(_, _, _)

\* Variant of Subcomponent.get_subpolygons that places the child's geometry
\* by the child's transform once more
Subcomponent_get_subpolygons_twice(h, sc, depth) ==
    LET r == Component_get_subpolygons(h, sc.component, depth)
    IN  IF r.err # Ok THEN r
        ELSE Relabel(r.h, r.res, sc.layermap, TRUE, transform[sc.component])

\* Subcomponent.get_subpolygons (lines 440-446)
Subcomponent_get_subpolygons(h, sc, depth) ==
    LET r == Component_get_subpolygons(h, sc.component, depth)
    IN  IF r.err # Ok THEN r
        ELSE Relabel(r.h, r.res, sc.layermap, FALSE, Identity)

\* [sp for subcompo in self.subcomponents for sp in subcompo.get_subpolygons()]
InnerSubpolys(h, scs, depth) ==
    IF scs = <<>> THEN [h |-> h, res |-> <<>>, err |-> Ok]
    ELSE LET r == Subcomponent_get_subpolygons(h, Head(scs), depth)
         IN  IF r.err # Ok THEN Failed(r.h, r.err)
             ELSE LET rest == InnerSubpolys(r.h, Tail(scs), depth)
                  IN  IF rest.err # Ok THEN Failed(rest.h, rest.err)
                      ELSE [h |-> rest.h, res |-> r.res \o rest.res, err |-> Ok]

\* Variant of Component.get_subpolygons that reads self.subpolygons without
\* cloning: the stored polygon objects are placed and handed out themselves.
RECURSIVE RelabelInPlace(_, _, _, _)
RelabelInPlace(h, s, lm, t) ==
    IF s = <<>> THEN [h |-> h, res |-> <<>>, err |-> Ok]
    ELSE IF Head(s).layer \notin DOMAIN lm THEN Failed(h, KeyError)
    ELSE IF lm[Head(s).layer] = None THEN RelabelInPlace(h, Tail(s), lm, t)
    ELSE LET h2   == Polygon_apply_transform(h, Head(s).polygon, t)
             rest == RelabelInPlace(h2, Tail(s), lm, t)
         IN  IF rest.err # Ok THEN Failed(rest.h, rest.err)
             ELSE [h |-> rest.h,
                   res |-> <<[polygon |-> Head(s).polygon,
                              layer |-> lm[Head(s).layer]]>> \o rest.res,
                   err |-> Ok]

Component_get_subpolygons_inplace(h, self, depth) ==
    IF depth > RecursionLimit THEN Failed(h, RecursionError)
    ELSE LET inner == InnerSubpolys(h, subcomponents[self], depth + 1)
         IN  IF inner.err # Ok THEN Failed(inner.h, inner.err)
             ELSE RelabelInPlace(inner.h, inner.res \o subpolygons[self],
                                 [l \in layers[self] |-> l], transform[self])

\* Component.get_subpolygons(layermap=None, do_apply_transform=True)
\* (lines 302-331); depth counts the nested Component frames.
Component_get_subpolygons(h, self, depth) ==
    IF depth > RecursionLimit THEN Failed(h, RecursionError)
    ELSE LET inner == InnerSubpolys(h, subcomponents[self], depth + 1)
         IN  IF inner.err # Ok THEN Failed(inner.h, inner.err)
             ELSE LET own      == OwnSubpolys(inner.h, subpolygons[self])
                      layermap == [l \in layers[self] |-> l]
                  IN  Relabel(own.h, inner.res \o own.res, layermap,
                              TRUE, transform[self])

\* The stored polygons' part of the heap (results of earlier calls dropped)
Stored(h) == SubSeq(h, 1, NumStored)

\* ------------------------------------------------ options (lines 97-118)
\* The option names a caller may pass, those the templates declare, the
\* defaults they declare and the value an override carries
OptionNames   == {"width", "height", "bogus"}
DeclaredNames == {"width", "height"}
Defaults      == {10, 15}
OverrideValues == {7}
ErrUnknownOption == "Unknown option(s)"
ErrTypeError     == "TypeError: _make() missing 1 required positional argument"

\* vars(parent) of one Options class: the Option objects it declares
OptionDecls == UNION { [K -> Defaults] : K \in SUBSET DeclaredNames }

\* type(self).__mro__ up to Component.Options: the Options classes of the
\* template's chain, the most derived first
Chains == UNION { [1..n -> OptionDecls] : n \in 0..MaxChain }

\* The options argument of Component.__init__: None or a dict
Overrides ==
    {[kind |-> "none"]}
    \cup {[kind |-> "dict", map |-> m] :
             m \in UNION { [K -> OverrideValues] : K \in SUBSET OptionNames }}

\* d.update(e): the items of e written over those of d
DictUpdate(d, e) ==
    [n \in DOMAIN d \cup DOMAIN e |-> IF n \in DOMAIN e THEN e[n] ELSE d[n]]

\* for parent in type(self).__mro__: ... self[name] = option.default
\* (lines 99-106): every class of the chain in turn writes its defaults
RECURSIVE WalkMro(_, _)
WalkMro(self, mro) ==
    IF mro = <<>> THEN self
    ELSE WalkMro(DictUpdate(self, Head(mro)), Tail(mro))

\* Variant of Options.__init__: the test for unknown keys left out
Options_init_nocheck(mro, values) ==
    LET self == WalkMro(<<>>, mro)
    IN  IF values.kind = "none"
        THEN [status |-> Ok, self |-> self, unknown |-> {}]
        ELSE [status |-> Ok, self |-> DictUpdate(self, values.map), unknown |-> {}]

\* Component.Options.__init__(values) (lines 97-118)
Options_init(mro, values) ==
    LET self == WalkMro(<<>>, mro)
    IN  IF values.kind = "none"
        THEN [status |-> Ok, self |-> self, unknown |-> {}]
        ELSE LET unknown_opts == DOMAIN values.map \ DOMAIN self
             IN  IF unknown_opts # {}
                 THEN [status |-> ErrUnknownOption, self |-> <<>>,
                       unknown |-> unknown_opts]
                 ELSE [status |-> Ok, self |-> DictUpdate(self, values.map),
                       unknown |-> {}]

\* The build in progress: how often _make was entered, the arguments it was
\* handed, whether the instance's lists were empty at that point, the
\* generator's position in its body, whether a call raised, and the keys an
\* unknown-option error names
NoTrace == [makes |-> 0, passed |-> <<>>, empty |-> FALSE, pos |-> 0,
            raised |-> FALSE, unknown |-> {}]

BuildIdle ==
    /\ options = [i \in Inst |-> <<>>]
    /\ trace = NoTrace
    /\ registry = <<>>

\* No call made yet in the BBox, marks and reducer worlds
NoRet == [op |-> "none", args |-> <<>>, status |-> Ok, value |-> 0]

BoxIdle ==
    /\ bbox = <<>>
    /\ added = <<>>
    /\ ret = NoRet
    /\ marks = <<>>
    /\ dicts = <<>>

\* ---------------------------------------------------------------- actions
NoGot == [of |-> 0, err |-> Ok, d |-> <<>>, vals |-> <<>>, prev |-> <<>>,
          again |-> FALSE]

\* The second hierarchy (compo.py) with nothing built
GeomsIdle ==
    /\ geoms = [c \in Inst |-> <<>>]
    /\ subcompos = [c \in Inst |-> <<>>]
    /\ lists = <<>>
    /\ got = NoGot

Init ==
    /\ pc = [i \in Inst |-> "unbuilt"]
    /\ layers = [i \in Inst |-> {}]
    /\ subcomponents = [i \in Inst |-> <<>>]
    /\ subpolygons = [i \in Inst |-> <<>>]
    /\ transform = [i \in Inst |-> Identity]
    /\ heap = <<>>
    /\ flat = NoFlat
    /\ out = Outcome("init", Ok, 0, 0)
    /\ args = NoArgs
    /\ GeomsIdle
    /\ BuildIdle
    /\ BoxIdle

\* Component.__init__ up to the call of _make (lines 215-232)
Build(i) ==
    /\ pc[i] = "unbuilt"
    /\ \A j \in Inst : j < i => pc[j] # "unbuilt"
    /\ pc' = [pc EXCEPT ![i] = "making"]
    /\ layers' = [layers EXCEPT ![i] = TemplateOf(i)]
    /\ subcomponents' = [subcomponents EXCEPT ![i] = <<>>]
    /\ subpolygons' = [subpolygons EXCEPT ![i] = <<>>]
    /\ transform' = [transform EXCEPT ![i] = Identity]
    /\ heap' = Stored(heap)
    /\ flat' = NoFlat
    /\ out' = Outcome("__init__", Ok, 0, 0)
    /\ options' = [options EXCEPT ![i] = Options_init(<<>>, [kind |-> "none"]).self]
    /\ UNCHANGED <<args, trace, registry>>
    /\ UNCHANGED <<geomVars, boxVars>>

\* _make returns and with it the constructor (line 232); generators nest, so
\* the innermost one returns first.
MakeReturn(i) ==
    /\ pc[i] = "making"
    /\ \A j \in Inst : j > i => pc[j] # "making"
    /\ pc' = [pc EXCEPT ![i] = "built"]
    /\ heap' = Stored(heap)
    /\ flat' = NoFlat
    /\ out' = Outcome("_make", Ok, 0, 0)
    /\ UNCHANGED <<layers, subcomponents, subpolygons, transform, args>>
    /\ UNCHANGED <<geomVars, buildVars, boxVars>>

\* Component.add_subcomponent (lines 239-258)
add_subcomponent(p, c, sh) ==
    LET r == parse_subcomponent_layermap_shorthand(layers[p], layers[c], sh)
    IN  /\ subcomponents' =
              IF r.status = Ok
              THEN [subcomponents EXCEPT
                      ![p] = Append(@, [component |-> c, layermap |-> r.layermap])]
              ELSE subcomponents
        /\ out' = Outcome("add_subcomponent", r.status, r.warnings, r.debugs)
        /\ heap' = Stored(heap)
        /\ flat' = NoFlat
        /\ UNCHANGED <<pc, layers, subpolygons, transform, args>>
        /\ UNCHANGED <<geomVars, buildVars, boxVars>>

AddSubcomponent(p, c, sh) ==
    /\ pc[p] # "unbuilt"
    /\ pc[c] # "unbuilt"
    /\ NumParts < MaxParts
    /\ add_subcomponent(p, c, sh)

\* Component.add_subpolygon (lines 260-277) with a newly made polygon
AddSubpolygon(i, lsh) ==
    /\ pc[i] # "unbuilt"
    /\ NumParts < MaxParts
    /\ LET r == parse_subpolygon_layer_shorthand(layers[i], lsh)
           p == NumStored + 1
       IN  /\ subpolygons' =
                 IF r.status = Ok
                 THEN [subpolygons EXCEPT
                         ![i] = Append(@, [polygon |-> p, layer |-> r.layer])]
                 ELSE subpolygons
           /\ heap' = IF r.status = Ok THEN Append(Stored(heap), p) ELSE Stored(heap)
           /\ out' = Outcome("add_subpolygon", r.status, 0, r.debugs)
    /\ flat' = NoFlat
    /\ UNCHANGED <<pc, layers, subcomponents, transform, args>>
    /\ UNCHANGED <<geomVars, buildVars, boxVars>>

\* Transformable placement of an instance (move / scale)
Move(i, t) ==
    /\ pc[i] # "unbuilt"
    /\ transform[i] = Identity
    /\ transform' = [transform EXCEPT ![i] = t]
    /\ heap' = Stored(heap)
    /\ flat' = NoFlat
    /\ out' = Outcome("move", Ok, 0, 0)
    /\ UNCHANGED <<pc, layers, subcomponents, subpolygons, args>>
    /\ UNCHANGED <<geomVars, buildVars, boxVars>>

\* A caller runs instance.get_subpolygons() and keeps the returned list
Flatten(i) ==
    /\ pc[i] # "unbuilt"
    /\ LET r == Component_get_subpolygons(Stored(heap), i, 1)
           n == Len(r.res)
           k0 == NumStored
           again == flat.of = i /\ flat.phase \in {"scribbled", "again"}
       IN  /\ heap' = [k \in 1..(k0 + n) |->
                         IF k <= k0 THEN r.h[k] ELSE r.h[r.res[k - k0].polygon]]
           /\ flat' = [of   |-> i,
                       err  |-> r.err,
                       res  |-> [k \in 1..n |->
                                   [polygon |-> IF r.res[k].polygon <= k0
                                                THEN r.res[k].polygon ELSE k0 + k,
                                    layer   |-> r.res[k].layer]],
                       vals |-> [k \in 1..n |->
                                   [val   |-> r.h[r.res[k].polygon],
                                    layer |-> r.res[k].layer]],
                       prev |-> IF again THEN flat.vals ELSE <<>>,
                       phase |-> IF again THEN "again" ELSE "first"]
           /\ out' = Outcome("get_subpolygons", r.err, 0, 0)
    /\ UNCHANGED <<pc, layers, subcomponents, subpolygons, transform, args>>
    /\ UNCHANGED <<geomVars, buildVars, boxVars>>

\* The caller writes coordinate 0 into every polygon of the list it got back
MutateResult ==
    /\ flat.phase \in {"first", "again"}
    /\ flat.res # <<>>
    /\ heap' = [p \in DOMAIN heap |->
                  IF \E k \in DOMAIN flat.res : flat.res[k].polygon = p
                  THEN 0 ELSE heap[p]]
    /\ flat' = [flat EXCEPT !.phase = "scribbled"]
    /\ UNCHANGED <<pc, layers, subcomponents, subpolygons, transform, out, args>>
    /\ UNCHANGED <<geomVars, buildVars, boxVars>>

Next ==
    \/ \E i \in Inst : Build(i)
    \/ \E i \in Inst : MakeReturn(i)
    \/ \E p, c \in Inst : \E sh \in ScriptShorthands : AddSubcomponent(p, c, sh)
    \/ \E i \in Inst : \E lsh \in LayerShorthands : AddSubpolygon(i, lsh)

Spec == Init /\ [][Next]_vars

\* The program inside its nested generators (instance 1's _make builds
\* instance 2, and so on), attaching geometry and reading it back:
\* placements, flattening, and a caller that writes into the lists it gets.
InitFlat ==
    /\ pc = [i \in Inst |-> "making"]
    /\ layers = [i \in Inst |-> TemplateOf(i)]
    /\ subcomponents = [i \in Inst |-> <<>>]
    /\ subpolygons = [i \in Inst |-> <<>>]
    /\ transform = [i \in Inst |-> Identity]
    /\ heap = <<>>
    /\ flat = NoFlat
    /\ out = Outcome("__init__", Ok, 0, 0)
    /\ args = NoArgs
    /\ GeomsIdle
    /\ BuildIdle
    /\ BoxIdle

NextFlat ==
    \/ \E p, c \in Inst : \E sh \in ScriptShorthands : AddSubcomponent(p, c, sh)
    \/ \E i \in Inst : \E lsh \in LayerShorthands : AddSubpolygon(i, lsh)
    \/ \E i \in Inst : Flatten(i)
    \/ MutateResult

SpecFlat == InitFlat /\ [][NextFlat]_vars

\* The same with the instances placed
NextPlace ==
    \/ NextFlat
    \/ \E i \in Inst : \E t \in Placements : Move(i, t)

SpecPlace == InitFlat /\ [][NextPlace]_vars

\* Nested instances under placements that do not commute (x |-> 2x+1 on the
\* odd instances, x |-> x+3 on the even ones): every instance is placed
\* before its generator attaches anything
PlacementOf(i) == IF i % 2 = 1 THEN <<2, 1>> ELSE <<1, 3>>

\* The shorthands of the nesting script: absent, a name, a partial and a
\* complete mapping
NestShorthands ==
    { [kind |-> "none"],
      [kind |-> "str", name |-> "A"],
      [kind |-> "dict", map |-> [k \in {"A"} |-> "C"]],
      [kind |-> "dict", map |-> [k \in {"A", "B"} |-> "C"]] }

InitNest ==
    /\ pc = [i \in Inst |-> "making"]
    /\ layers = [i \in Inst |-> TemplateOf(i)]
    /\ subcomponents = [i \in Inst |-> <<>>]
    /\ subpolygons = [i \in Inst |-> <<>>]
    /\ transform = [i \in Inst |-> PlacementOf(i)]
    /\ heap = <<>>
    /\ flat = NoFlat
    /\ out = Outcome("__init__", Ok, 0, 0)
    /\ args = NoArgs
    /\ GeomsIdle
    /\ BuildIdle
    /\ BoxIdle

NextNest ==
    \/ \E p, c \in Inst : \E sh \in NestShorthands : AddSubcomponent(p, c, sh)
    \/ \E i \in Inst : \E lsh \in LayerShorthands : AddSubpolygon(i, lsh)
    \/ \E i \in Inst : Flatten(i)

SpecNest == InitNest /\ [][NextNest]_vars

\* ------------------------------------------------ the resolver on its own
\* A parent (instance 1) and a child (instance 2) of any two layer sets, both
\* built, the child holding one polygon on each of its layers; the script
\* attaches the child under the drawn shorthand and reads the geometry back.
Parent == 1
Child  == 2

InitResolve ==
    /\ args \in [parent_layers : SUBSET LayerNames,
                 child_layers  : SUBSET LayerNames,
                 shorthand     : Shorthands]
    /\ pc = [i \in Inst |-> IF i \in {Parent, Child} THEN "built" ELSE "unbuilt"]
    /\ layers = [i \in Inst |-> IF i = Parent THEN args.parent_layers
                                ELSE IF i = Child THEN args.child_layers ELSE {}]
    /\ subcomponents = [i \in Inst |-> <<>>]
    /\ subpolygons = [i \in Inst |->
          IF i = Child
          THEN [k \in 1..Cardinality(args.child_layers) |->
                  [polygon |-> k, layer |-> SeqOfSet(args.child_layers)[k]]]
          ELSE <<>>]
    /\ transform = [i \in Inst |-> Identity]
    /\ heap = [k \in 1..Cardinality(args.child_layers) |-> k]
    /\ flat = NoFlat
    /\ out = Outcome("__init__", Ok, 0, 0)
    /\ GeomsIdle
    /\ BuildIdle
    /\ BoxIdle

ResolveAttach ==
    /\ out.op = "__init__"
    /\ add_subcomponent(Parent, Child, args.shorthand)

NextResolve ==
    \/ ResolveAttach
    \/ \E i \in {Parent, Child} : Flatten(i)

SpecResolve == InitResolve /\ [][NextResolve]_vars

\* ------------------------------------------------- attaching subpolygons
\* What add_subpolygons is handed (line 281): a polygon, a group of n
\* polygons, a list of such things, or an object of another type.
Polygon      == [kind |-> "Polygon"]
Group(n)     == [kind |-> "Group", n |-> n]
List(items)  == [kind |-> "list", items |-> items]
OtherObject  == [kind |-> "other"]
ErrOnlyPolygons == "Please only pass polygons or polygongroups"

PolysInputs ==
    { Polygon, Group(0), Group(2), OtherObject,
      List(<<>>), List(<<Polygon, Polygon>>), List(<<Polygon, OtherObject>>),
      List(<<Group(1), Polygon>>), List(<<List(<<Polygon>>)>>) }

\* The polygons in an add_subpolygons argument
RECURSIVE NumPolygons(_)
RECURSIVE NumPolygonsSeq(_)
NumPolygons(polys) ==
    IF polys.kind = "Polygon" THEN 1
    ELSE IF polys.kind = "Group" THEN polys.n
    ELSE IF polys.kind = "list" THEN NumPolygonsSeq(polys.items)
    ELSE 0
NumPolygonsSeq(items) ==
    IF items = <<>> THEN 0
    ELSE NumPolygons(Head(items)) + NumPolygonsSeq(Tail(items))

\* The layer sets of the templates the subpolygon calls are tried on: no
\* layer, a sole layer, several layers
LayerChoices == { {}, {"C"}, {"A", "B"} }

\* A call in progress on one instance: its subpolygon list, the polygon
\* objects, and how the call stands (an exception ends it)
CallState(i) == [subs |-> subpolygons[i], h |-> Stored(heap), status |-> Ok, debugs |-> 0]

\* Component.add_subpolygon (lines 260-277) on a call state; the polygon
\* handed in is a new object
add_subpolygon(st, parent_layers, lsh) ==
    IF st.status # Ok THEN st
    ELSE LET r == parse_subpolygon_layer_shorthand(parent_layers, lsh)
         IN  IF r.status # Ok
             THEN [st EXCEPT !.status = r.status]
             ELSE [subs   |-> Append(st.subs, [polygon |-> Len(st.h) + 1, layer |-> r.layer]),
                   h      |-> Append(st.h, Len(st.h) + 1),
                   status |-> Ok,
                   debugs |-> st.debugs + r.debugs]

\* for polygon in polys.get_polygons(): self.add_subpolygon(polygon, layermap)
RECURSIVE AddGroup(_, _, _, _)
AddGroup(st, parent_layers, n, lsh) ==
    IF n = 0 THEN st
    ELSE AddGroup(add_subpolygon(st, parent_layers, lsh), parent_layers, n - 1, lsh)

\* Component.add_subpolygons (lines 279-300)
RECURSIVE add_subpolygons(_, _, _, _)
RECURSIVE AddEach(_, _, _, _)
add_subpolygons(st, parent_layers, polys, lsh) ==
    IF st.status # Ok THEN st
    ELSE IF polys.kind = "Polygon" THEN add_subpolygon(st, parent_layers, lsh)
    ELSE IF polys.kind = "Group" THEN AddGroup(st, parent_layers, polys.n, lsh)
    ELSE IF polys.kind = "list" THEN AddEach(st, parent_layers, polys.items, lsh)
    ELSE [st EXCEPT !.status = ErrOnlyPolygons]

\* for poly in polys: self.add_subpolygons(poly, layermap)
AddEach(st, parent_layers, items, lsh) ==
    IF items = <<>> THEN st
    ELSE AddEach(add_subpolygons(st, parent_layers, Head(items), lsh),
                 parent_layers, Tail(items), lsh)

NoCall == [of |-> 0, layer |-> None, polys |-> Polygon]

\* The generator of instance 1 is running; the other instances do not exist
InitPoly ==
    /\ pc = [i \in Inst |-> IF i = 1 THEN "making" ELSE "unbuilt"]
    /\ layers \in {f \in [Inst -> LayerChoices] : \A i \in Inst \ {1} : f[i] = {}}
    /\ subcomponents = [i \in Inst |-> <<>>]
    /\ subpolygons = [i \in Inst |-> <<>>]
    /\ transform = [i \in Inst |-> Identity]
    /\ heap = <<>>
    /\ flat = NoFlat
    /\ out = Outcome("__init__", Ok, 0, 0)
    /\ args = NoCall
    /\ GeomsIdle
    /\ BuildIdle
    /\ BoxIdle

\* The generator of instance i calls self.add_subpolygon(polygon, lsh)
CallAddSubpolygon(i, lsh) ==
    /\ pc[i] # "unbuilt"
    /\ NumParts < MaxParts
    /\ LET st == add_subpolygon(CallState(i), layers[i], lsh)
       IN  /\ subpolygons' = [subpolygons EXCEPT ![i] = st.subs]
           /\ heap' = st.h
           /\ out' = Outcome("add_subpolygon", st.status, 0, st.debugs)
    /\ args' = [of |-> i, layer |-> lsh, polys |-> Polygon]
    /\ flat' = NoFlat
    /\ UNCHANGED <<pc, layers, subcomponents, transform>>
    /\ UNCHANGED <<geomVars, buildVars, boxVars>>

\* The generator of instance i calls self.add_subpolygons(polys, lsh)
CallAddSubpolygons(i, polys, lsh) ==
    /\ pc[i] # "unbuilt"
    /\ NumParts + NumPolygons(polys) <= MaxParts
    /\ LET st == add_subpolygons(CallState(i), layers[i], polys, lsh)
       IN  /\ subpolygons' = [subpolygons EXCEPT ![i] = st.subs]
           /\ heap' = st.h
           /\ out' = Outcome("add_subpolygons", st.status, 0, st.debugs)
    /\ args' = [of |-> i, layer |-> lsh, polys |-> polys]
    /\ flat' = NoFlat
    /\ UNCHANGED <<pc, layers, subcomponents, transform>>
    /\ UNCHANGED <<geomVars, buildVars, boxVars>>

NextPoly ==
    \/ \E i \in Inst : \E lsh \in LayerShorthands : CallAddSubpolygon(i, lsh)
    \/ \E i \in Inst : \E polys \in PolysInputs : \E lsh \in LayerShorthands :
           CallAddSubpolygons(i, polys, lsh)

SpecPoly == InitPoly /\ [][NextPoly]_vars

\* ------------------------------------------------------- one build, whole
\* Component.__init__(options) from the call to its return or its exception:
\* instance 1 is built from a template with the drawn Options chain, the
\* drawn overrides, a generator that does or does not take the options as
\* its parameter (as Snowman._make(self, opts) does), and the drawn body.
Subject == 1

\* Generator bodies: the layers named by its add_subpolygon calls, in order
GeneratorBodies ==
    { <<>>, <<"A">>, <<"A", "B">>, <<"C">>, <<"A", "C">>, <<None>>, <<"B", None>> }

InitBuild ==
    /\ args \in [mro : Chains, values : Overrides, takes_opts : BOOLEAN,
                 body : GeneratorBodies]
    /\ pc = [i \in Inst |-> "unbuilt"]
    /\ layers = [i \in Inst |-> {}]
    /\ subcomponents = [i \in Inst |-> <<>>]
    /\ subpolygons = [i \in Inst |-> <<>>]
    /\ transform = [i \in Inst |-> Identity]
    /\ heap = <<>>
    /\ flat = NoFlat
    /\ out = Outcome("init", Ok, 0, 0)
    /\ GeomsIdle
    /\ BuildIdle
    /\ BoxIdle

\* Where the constructor stands after a call made on its behalf: an exception
\* is caught nowhere (line 232 and the generator), so it ends the build.
\* The variant swallows it.
AfterCall_swallow(status) == "making"

AfterCall(status) == IF status # Ok THEN "failed" ELSE "making"

\* Component.__init__ (lines 215-232) up to the entry of _make: the options
\* are resolved (226), the layers and the empty lists set (227-230), and
\* self._make() is called with no argument (232).
Construct ==
    /\ pc[Subject] = "unbuilt"
    /\ LET r == Options_init(args.mro, args.values)
           make == IF args.takes_opts THEN ErrTypeError ELSE Ok
       IN  IF r.status # Ok
           THEN /\ pc' = [pc EXCEPT ![Subject] = AfterCall(r.status)]
                /\ out' = Outcome("__init__", r.status, 0, 0)
                /\ trace' = [NoTrace EXCEPT !.raised = TRUE, !.unknown = r.unknown]
                /\ UNCHANGED <<options, layers, subcomponents, subpolygons>>
           ELSE /\ options' = [options EXCEPT ![Subject] = r.self]
                /\ layers' = [layers EXCEPT ![Subject] = TemplateOf(Subject)]
                /\ subcomponents' = [subcomponents EXCEPT ![Subject] = <<>>]
                /\ subpolygons' = [subpolygons EXCEPT ![Subject] = <<>>]
                /\ pc' = [pc EXCEPT ![Subject] = AfterCall(make)]
                /\ out' = Outcome("__init__", make, 0, 0)
                /\ trace' = IF make # Ok
                            THEN [NoTrace EXCEPT !.raised = TRUE]
                            ELSE [makes  |-> 1,
                                  passed |-> <<>>,
                                  empty  |-> /\ subcomponents'[Subject] = <<>>
                                             /\ subpolygons'[Subject] = <<>>,
                                  pos    |-> 1,
                                  raised |-> FALSE,
                                  unknown |-> {}]
    /\ UNCHANGED <<transform, heap, flat, args, registry>>
    /\ UNCHANGED <<geomVars, boxVars>>

\* The generator makes the next call of its body:
\* self.add_subpolygon(polygon, layer)
GenStep ==
    /\ pc[Subject] = "making"
    /\ trace.makes = 1
    /\ trace.pos <= Len(args.body)
    /\ LET st == add_subpolygon(CallState(Subject), layers[Subject],
                                args.body[trace.pos])
       IN  /\ subpolygons' = [subpolygons EXCEPT ![Subject] = st.subs]
           /\ heap' = st.h
           /\ pc' = [pc EXCEPT ![Subject] = AfterCall(st.status)]
           /\ out' = Outcome("add_subpolygon", st.status, 0, st.debugs)
           /\ trace' = [trace EXCEPT !.pos = @ + 1,
                                     !.raised = @ \/ st.status # Ok]
    /\ UNCHANGED <<layers, subcomponents, transform, flat, args, options, registry>>
    /\ UNCHANGED <<geomVars, boxVars>>

\* The generator reaches its end: _make returns and with it the constructor
GenReturn ==
    /\ pc[Subject] = "making"
    /\ trace.makes = 1
    /\ trace.pos = Len(args.body) + 1
    /\ pc' = [pc EXCEPT ![Subject] = "built"]
    /\ out' = Outcome("_make", Ok, 0, 0)
    /\ UNCHANGED <<layers, subcomponents, subpolygons, transform, heap, flat, args>>
    /\ UNCHANGED <<geomVars, buildVars, boxVars>>

NextBuild ==
    \/ Construct
    \/ GenStep
    \/ GenReturn

SpecBuild == InitBuild /\ [][NextBuild]_vars

\* ------------------------------------------- the second hierarchy: compo.py
MaxGrow == 4        \* get_geoms is not called once a list has grown this long

RECURSIVE SumDom(_, _)
SumDom(f, n) == IF n = 0 THEN 0 ELSE Cardinality(DOMAIN f[n]) + SumDom(f, n - 1)

NumOwnLists  == SumDom(geoms, MaxInst)
NumGeomParts == NumOwnLists + SumLen(subcompos, MaxInst)

\* The list objects the instances own (lists made for a returned dict dropped)
OwnLists(h) == SubSeq(h, 1, NumOwnLists)

\* dict item assignment d[k] = v
DictSet(d, k, v) == [x \in DOMAIN d \cup {k} |-> IF x = k THEN v ELSE d[x]]

RECURSIVE Compo_get_geoms(_, _, _)
RECURSIVE Proxy_get_geoms(_, _, _)
RECURSIVE MergeSubcompos(_, _, _, _)
RECURSIVE MergeLayers(_, _, _, _)
RECURSIVE CopyLayers(_, _, _, _)

\* Proxy.get_geoms: the proxied compo's geometry in lists of the proxy's own
CopyLayers(h, src, ls, d) ==
    IF ls = <<>> THEN [h |-> h, d |-> d, err |-> Ok]
    ELSE CopyLayers(Append(h, h[src[Head(ls)]]), src, Tail(ls),
                    DictSet(d, Head(ls), Len(h) + 1))

Proxy_get_geoms(h, c, depth) ==
    LET r == Compo_get_geoms(h, c, depth)
    IN  IF r.err # Ok THEN r
        ELSE CopyLayers(r.h, r.d, SeqOfSet(DOMAIN r.d), <<>>)

\* for layer_name, layer_geoms in subcompo.get_geoms().items(): (lines 47-50)
MergeLayers(h, d, sub, ls) ==
    IF ls = <<>> THEN [h |-> h, d |-> d, err |-> Ok]
    ELSE LET l  == Head(ls)
             h1 == IF l \in DOMAIN d THEN h ELSE Append(h, <<>>)
             d1 == IF l \in DOMAIN d THEN d ELSE DictSet(d, l, Len(h) + 1)
             h2 == [h1 EXCEPT ![d1[l]] = @ \o h1[sub[l]]]
         IN  MergeLayers(h2, d1, sub, Tail(ls))

\* for subcompo in self.subcompos.values(): (line 45)
MergeSubcompos(h, d, scs, depth) ==
    IF scs = <<>> THEN [h |-> h, d |-> d, err |-> Ok]
    ELSE LET r == Proxy_get_geoms(h, Head(scs), depth)
         IN  IF r.err # Ok THEN [h |-> r.h, d |-> <<>>, err |-> r.err]
             ELSE LET m == MergeLayers(r.h, d, r.d, SeqOfSet(DOMAIN r.d))
                  IN  MergeSubcompos(m.h, m.d, Tail(scs), depth)

\* Compo.get_geoms (lines 43-51): geoms = self.geoms.copy() copies the dict,
\* not the lists in it.
Compo_get_geoms(h, self, depth) ==
    IF depth > RecursionLimit THEN [h |-> h, d |-> <<>>, err |-> RecursionError]
    ELSE MergeSubcompos(h, geoms[self], subcompos[self], depth + 1)

\* What instance c's own self.geoms holds: layer name -> content of its list
OwnContents(c) == [l \in DOMAIN geoms[c] |-> lists[geoms[c][l]]]

treeVars == <<layers, subcomponents, subpolygons, transform, heap, flat, args>>

\* Compo.__init__ up to the call of _make (lines 36-41)
CompoInit(c) ==
    /\ pc[c] = "unbuilt"
    /\ \A j \in Inst : j < c => pc[j] # "unbuilt"
    /\ pc' = [pc EXCEPT ![c] = "making"]
    /\ geoms' = [geoms EXCEPT ![c] = <<>>]
    /\ subcompos' = [subcompos EXCEPT ![c] = <<>>]
    /\ lists' = OwnLists(lists)
    /\ got' = NoGot
    /\ out' = Outcome("__init__", Ok, 0, 0)
    /\ UNCHANGED <<treeVars, buildVars, boxVars>>

\* _make returns (line 41)
CompoMakeReturn(c) ==
    /\ pc[c] = "making"
    /\ \A j \in Inst : j > c => pc[j] # "making"
    /\ pc' = [pc EXCEPT ![c] = "built"]
    /\ lists' = OwnLists(lists)
    /\ got' = NoGot
    /\ out' = Outcome("_make", Ok, 0, 0)
    /\ UNCHANGED <<geoms, subcompos>>
    /\ UNCHANGED <<treeVars, buildVars, boxVars>>

\* The generator puts a new one-geometry list on a layer:
\* self.geoms.update({layer: [geom]})  (rectwh.py lines 19-28)
UpdateGeoms(c, l) ==
    /\ pc[c] = "making"
    /\ l \notin DOMAIN geoms[c]
    /\ NumGeomParts < MaxParts
    /\ lists' = Append(OwnLists(lists), <<NumOwnLists + 1>>)
    /\ geoms' = [geoms EXCEPT ![c] = DictSet(@, l, NumOwnLists + 1)]
    /\ got' = NoGot
    /\ out' = Outcome("update", Ok, 0, 0)
    /\ UNCHANGED <<pc, subcompos>>
    /\ UNCHANGED <<treeVars, buildVars, boxVars>>

\* self.subcompos[name] = proxy of compo s  (lines 25-30, 190)
AddSubcompo(c, s) ==
    /\ pc[c] # "unbuilt"
    /\ pc[s] # "unbuilt"
    /\ NumGeomParts < MaxParts
    /\ subcompos' = [subcompos EXCEPT ![c] = Append(@, s)]
    /\ lists' = OwnLists(lists)
    /\ got' = NoGot
    /\ out' = Outcome("subcompos", Ok, 0, 0)
    /\ UNCHANGED <<pc, geoms>>
    /\ UNCHANGED <<treeVars, buildVars, boxVars>>

\* A caller runs compo.get_geoms() (op = "get_geoms") or reads compo.bbox
\* (op = "bbox", lines 133-139, which runs get_geoms and walks its result).
GetGeoms(c, op) ==
    /\ pc[c] # "unbuilt"
    /\ \A k \in 1..NumOwnLists : Len(lists[k]) < MaxGrow
    /\ LET r == Compo_get_geoms(OwnLists(lists), c, 1)
           ls == SeqOfSet(DOMAIN r.d)
           k0 == NumOwnLists
           again == got.of = c
           vals == [l \in DOMAIN r.d |-> r.h[r.d[l]]]
       IN  /\ lists' = [k \in 1..(k0 + Len(ls)) |->
                          IF k <= k0 THEN r.h[k] ELSE r.h[r.d[ls[k - k0]]]]
           /\ got' = [of    |-> c,
                      err   |-> r.err,
                      d     |-> [l \in DOMAIN r.d |->
                                   IF r.d[l] <= k0 THEN r.d[l]
                                   ELSE k0 + (CHOOSE k \in 1..Len(ls) : ls[k] = l)],
                      vals  |-> vals,
                      prev  |-> IF again THEN got.vals ELSE <<>>,
                      again |-> again]
           /\ out' = Outcome(op, r.err, 0, 0)
    /\ UNCHANGED <<pc, geoms, subcompos>>
    /\ UNCHANGED <<treeVars, buildVars, boxVars>>

NextGeoms ==
    \/ \E c \in Inst : CompoInit(c)
    \/ \E c \in Inst : CompoMakeReturn(c)
    \/ \E c \in Inst : \E l \in LayerNames : UpdateGeoms(c, l)
    \/ \E c, s \in Inst : AddSubcompo(c, s)
    \/ \E c \in Inst : \E op \in {"get_geoms", "bbox"} : GetGeoms(c, op)

SpecGeoms == Init /\ [][NextGeoms]_vars

\* ------------------------------------- registering a template: compo.py
MaxParams == 2      \* parameters of a generator besides self

\* inspect._empty / pc.Empty, the parameter names, the default values a
\* parameter may carry with their Python types, and the annotations
Empty        == "Empty"
ParamNames   == {"width", "height", "depth"}
ParamDefaults == {"15", "1.5"}
TypeOf(v)    == IF v = "15" THEN "int" ELSE "float"
Annotations  == {"int", "str"}

Params == [name : ParamNames, default : ParamDefaults \cup {Empty},
           annotation : Annotations \cup {Empty}]
SelfParam == [name |-> "self", default |-> Empty, annotation |-> Empty]

\* The parameter lists of _make after self: distinct names
ParamLists ==
    UNION { { ps \in [1..n -> Params] :
                \A j, k \in 1..n : j # k => ps[j].name # ps[k].name }
            : n \in 0..MaxParams }

\* An Option object as the class body makes it: pc.Option('Width of ...')
NewOption == [default |-> "unset", annot |-> "unset"]

\* _class_to_dictlist(cls, 'Options', pc.Option) (lines 213-225)
class_to_dictlist(declared) == [n \in declared |-> NewOption]

\* The loop over inspect.signature(cls._make).parameters (lines 146-161)
RECURSIVE AnnotateParams(_, _)
AnnotateParams(Options, ps) ==
    IF ps = <<>> THEN Options
    ELSE LET param == Head(ps)
         IN  IF param.name \notin DOMAIN Options
             THEN AnnotateParams(Options, Tail(ps))
             ELSE LET default == param.default
                      annot == IF param.annotation = Empty
                               THEN IF param.default # Empty
                                    THEN TypeOf(param.default) ELSE Empty
                               ELSE param.annotation
                  IN  AnnotateParams(
                          [Options EXCEPT ![param.name] =
                              [default |-> default, annot |-> annot]],
                          Tail(ps))

\* Compo.__init_subclass__ (lines 141-161)
init_subclass(declared, ps) ==
    AnnotateParams(class_to_dictlist(declared), <<SelfParam>> \o ps)

InitRegister ==
    /\ args \in [declared : SUBSET DeclaredNames, params : ParamLists]
    /\ pc = [i \in Inst |-> "unbuilt"]
    /\ layers = [i \in Inst |-> {}]
    /\ subcomponents = [i \in Inst |-> <<>>]
    /\ subpolygons = [i \in Inst |-> <<>>]
    /\ transform = [i \in Inst |-> Identity]
    /\ heap = <<>>
    /\ flat = NoFlat
    /\ out = Outcome("init", Ok, 0, 0)
    /\ GeomsIdle
    /\ BuildIdle
    /\ BoxIdle

\* class X(pc.Compo): the class statement runs Compo.__init_subclass__
Register ==
    /\ out.op = "init"
    /\ registry' = init_subclass(args.declared, args.params)
    /\ out' = Outcome("__init_subclass__", Ok, 0, 0)
    /\ UNCHANGED <<pc, layers, subcomponents, subpolygons, transform, heap, flat,
                   args, options, trace>>
    /\ UNCHANGED <<geomVars, boxVars>>

NextRegister == Register

SpecRegister == InitRegister /\ [][NextRegister]_vars

\* ------------------------------------------------------------ BBox.py
\* Coordinates and paddings are whole numbers.  A ratio counts halves (1 is
\* the 0.5 of the anchors, 2 is 1.0) and the coordinates of a returned point
\* count halves as well, so that min + size * 0.5 stays a whole number.
MaxPoints == 4      \* points handed to one BBox, constructor included
PosInf == 99        \* float('inf'), above every coordinate
NegInf == -99       \* -float('inf'), below every coordinate

EmptyBBoxException == "EmptyBBoxException"

\* The points the BBox is fed: the corners of a 4 by 3 rectangle
Points == { <<0, 0>>, <<4, 0>>, <<4, 3>>, <<0, 3>> }

\* An optional argument: left out, or given with a value
Omitted == [given |-> FALSE, v |-> 0]
Some(v) == [given |-> TRUE, v |-> v]
NoArray == [given |-> FALSE, v |-> <<>>]

\* What the BBox may be bound to (self._transformable)
Transformables == {None, "subcomponent"}

Raise(e)  == [status |-> e, value |-> 0]
Return(v) == [status |-> Ok, value |-> v]

Point(x, y) == [kind |-> "Point", x |-> x, y |-> y, transformable |-> None]
BoundPoint(x, y, transformable) ==
    [kind |-> "BoundPoint", x |-> x, y |-> y, transformable |-> transformable]

\* The module-level orientation flag (line 11)
MATHEMATIC_Y_AXIS == args.MATHEMATIC_Y_AXIS

\* True and False used as a ratio are 1.0 and 0.0
Ratio(b) == IF b THEN 2 ELSE 0

add_point_elif(self, point) ==
    IF point[1] > self.max_x THEN [self EXCEPT !.max_x = point[1]]
    ELSE IF point[1] < self.min_x THEN [self EXCEPT !.min_x = point[1]]
    ELSE IF point[2] > self.max_y THEN [self EXCEPT !.max_y = point[2]]
    ELSE IF point[2] < self.min_y THEN [self EXCEPT !.min_y = point[2]]
    ELSE self

\* BBox.add_point (lines 186-204): four independent comparisons
add_point(self, point) ==
    LET a == IF point[1] > self.max_x THEN [self EXCEPT !.max_x = point[1]] ELSE self
        b == IF point[1] < a.min_x THEN [a EXCEPT !.min_x = point[1]] ELSE a
        c == IF point[2] > b.max_y THEN [b EXCEPT !.max_y = point[2]] ELSE b
        d == IF point[2] < c.min_y THEN [c EXCEPT !.min_y = point[2]] ELSE c
    IN d

\* BBox.add_xyarray (lines 174-184)
RECURSIVE add_xyarray(_, _)
add_xyarray(self, xyarray) ==
    IF xyarray = <<>> THEN self
    ELSE add_xyarray(add_point(self, Head(xyarray)), Tail(xyarray))

\* BBox.__init__ (lines 75-102)
BBox_init(xyarray, transformable) ==
    LET self == [max_x |-> NegInf, max_y |-> NegInf,
                 min_x |-> PosInf, min_y |-> PosInf,
                 transformable |-> transformable]
    IN IF xyarray.given THEN add_xyarray(self, xyarray.v) ELSE self

\* BBox.is_empty (lines 116-139)
is_empty(self) ==
    \/ self.max_x = NegInf
    \/ self.max_y = NegInf
    \/ self.min_x = PosInf
    \/ self.min_y = PosInf

\* BBox.assert_nonempty (lines 141-161): Ok, or the exception it raises
assert_nonempty(self) == IF is_empty(self) THEN EmptyBBoxException ELSE Ok

BBox_copy_bound(h, self) ==
    [h |-> Append(h, h[self]), ref |-> Len(h) + 1]

\* BBox.copy (lines 163-172): a new BBox() that is given the four bounds
BBox_copy(h, self) ==
    LET new_bbox == [BBox_init(NoArray, None) EXCEPT
                        !.max_x = h[self].max_x, !.max_y = h[self].max_y,
                        !.min_x = h[self].min_x, !.min_y = h[self].min_y]
    IN [h |-> Append(h, new_bbox), ref |-> Len(h) + 1]

width_unchecked(self) == Return(self.max_x - self.min_x)

\* The edge queries (lines 206-312)
width(self) ==
    IF assert_nonempty(self) # Ok THEN Raise(assert_nonempty(self))
    ELSE Return(self.max_x - self.min_x)

height(self) ==
    IF assert_nonempty(self) # Ok THEN Raise(assert_nonempty(self))
    ELSE Return(self.max_y - self.min_y)

left(self) ==
    IF assert_nonempty(self) # Ok THEN Raise(assert_nonempty(self))
    ELSE Return(self.min_x)

top(self) ==
    IF assert_nonempty(self) # Ok THEN Raise(assert_nonempty(self))
    ELSE Return(IF MATHEMATIC_Y_AXIS THEN self.max_y ELSE self.min_y)

right(self) ==
    IF assert_nonempty(self) # Ok THEN Raise(assert_nonempty(self))
    ELSE Return(self.max_x)

bottom(self) ==
    IF assert_nonempty(self) # Ok THEN Raise(assert_nonempty(self))
    ELSE Return(IF MATHEMATIC_Y_AXIS THEN self.min_y ELSE self.max_y)

interpolate_from_max(self, x_ratio, y_ratio) ==
    IF width(self).status # Ok THEN Raise(width(self).status)
    ELSE IF height(self).status # Ok THEN Raise(height(self).status)
    ELSE LET x == 2 * self.max_x - width(self).value * x_ratio
             y == 2 * self.max_y - height(self).value * y_ratio
         IN Return(IF self.transformable = None THEN Point(x, y)
                   ELSE BoundPoint(x, y, self.transformable))

\* BBox.interpolate (lines 314-354); self.width and self.height raise on an
\* empty box
interpolate(self, x_ratio, y_ratio) ==
    IF width(self).status # Ok THEN Raise(width(self).status)
    ELSE IF height(self).status # Ok THEN Raise(height(self).status)
    ELSE LET x == 2 * self.min_x + width(self).value * x_ratio
             y == 2 * self.min_y + height(self).value * y_ratio
         IN Return(IF self.transformable = None THEN Point(x, y)
                   ELSE BoundPoint(x, y, self.transformable))

\* The nine anchors (lines 356-588)
mid(self) ==
    IF assert_nonempty(self) # Ok THEN Raise(assert_nonempty(self))
    ELSE interpolate(self, 1, 1)

top_mid_fixed(self) ==
    IF assert_nonempty(self) # Ok THEN Raise(assert_nonempty(self))
    ELSE interpolate(self, 1, 2)

top_mid(self) ==
    IF assert_nonempty(self) # Ok THEN Raise(assert_nonempty(self))
    ELSE interpolate(self, 1, Ratio(MATHEMATIC_Y_AXIS))

bot_mid(self) ==
    IF assert_nonempty(self) # Ok THEN Raise(assert_nonempty(self))
    ELSE interpolate(self, 1, Ratio(~MATHEMATIC_Y_AXIS))

mid_left(self) ==
    IF assert_nonempty(self) # Ok THEN Raise(assert_nonempty(self))
    ELSE interpolate(self, 0, 1)

mid_right(self) ==
    IF assert_nonempty(self) # Ok THEN Raise(assert_nonempty(self))
    ELSE interpolate(self, 2, 1)

top_left(self) ==
    IF assert_nonempty(self) # Ok THEN Raise(assert_nonempty(self))
    ELSE interpolate(self, 0, Ratio(MATHEMATIC_Y_AXIS))

top_right(self) ==
    IF assert_nonempty(self) # Ok THEN Raise(assert_nonempty(self))
    ELSE interpolate(self, 2, Ratio(MATHEMATIC_Y_AXIS))

bot_left(self) ==
    IF assert_nonempty(self) # Ok THEN Raise(assert_nonempty(self))
    ELSE interpolate(self, 0, Ratio(~MATHEMATIC_Y_AXIS))

bot_right(self) ==
    IF assert_nonempty(self) # Ok THEN Raise(assert_nonempty(self))
    ELSE interpolate(self, 2, Ratio(~MATHEMATIC_Y_AXIS))

\* Python's `y or x`: y unless it is None or zero
Or(y, x) == IF y.given /\ y.v # 0 THEN y.v ELSE x

\* BBox.pad (lines 590-648) on the BBox object self of the heap h.  The
\* paddings are added to a copy, whose reference is returned.
pad(h, self, x, y, left_, top_, right_, bottom_) ==
    IF assert_nonempty(h[self]) # Ok
    THEN [status |-> assert_nonempty(h[self]), h |-> h, value |-> 0]
    ELSE LET y1 == Or(y, x)
             c == BBox_copy(h, self)
             new == c.ref
             h1 == [c.h EXCEPT ![new].min_x = @ - (left_ + x)]
             h2 == [h1 EXCEPT ![new].max_x = @ + (right_ + x)]
             h3 == [h2 EXCEPT ![new].min_y = @ - (bottom_ + y1)]
             h4 == [h3 EXCEPT ![new].max_y = @ + (top_ + y1)]
         IN [status |-> Ok, h |-> h4, value |-> new]

EdgeQueries == {"width", "height", "left", "top", "right", "bottom"}
Anchors == {"mid", "top_mid", "bot_mid", "mid_left", "mid_right",
            "top_left", "top_right", "bot_left", "bot_right"}

\* bbox.<name> for an edge query or an anchor
Property(self, name) ==
    CASE name = "width"     -> width(self)
      [] name = "height"    -> height(self)
      [] name = "left"      -> left(self)
      [] name = "top"       -> top(self)
      [] name = "right"     -> right(self)
      [] name = "bottom"    -> bottom(self)
      [] name = "mid"       -> mid(self)
      [] name = "top_mid"   -> top_mid(self)
      [] name = "bot_mid"   -> bot_mid(self)
      [] name = "mid_left"  -> mid_left(self)
      [] name = "mid_right" -> mid_right(self)
      [] name = "top_left"  -> top_left(self)
      [] name = "top_right" -> top_right(self)
      [] name = "bot_left"  -> bot_left(self)
      [] name = "bot_right" -> bot_right(self)

\* The arrays handed to the constructor and to add_xyarray
Arrays == {<<>>} \cup {<<p>> : p \in Points} \cup {<<p, q>> : p, q \in Points}

\* The ratio pairs interpolate is called with: the corners, the middle, and
\* ratios below 0 and above 1
RatioPairs == { <<0, 0>>, <<2, 2>>, <<1, 1>>, <<0, 2>>, <<-1, 3>>, <<3, -1>> }

PadCall(x, y, l, t, r, b) ==
    [x |-> x, y |-> y, left |-> l, top |-> t, right |-> r, bottom |-> b]

\* The calls of pad: pad(), pad(1), pad(1, 2), pad(1, 0), pad(left=..), and
\* every kind of padding at once
PadCalls == { PadCall(0, Omitted, 0, 0, 0, 0),
              PadCall(1, Omitted, 0, 0, 0, 0),
              PadCall(1, Some(2), 0, 0, 0, 0),
              PadCall(1, Some(0), 0, 0, 0, 0),
              PadCall(0, Omitted, 1, 2, 3, 4),
              PadCall(1, Some(2), 1, 0, 2, 0) }

Called(op, a, r) == [op |-> op, args |-> a, status |-> r.status, value |-> r.value]

\* Everything outside the BBox world, left as constructed
restVars == <<pc, layers, subcomponents, subpolygons, transform, heap, flat, out>>

RestIdle ==
    /\ pc = [i \in Inst |-> "unbuilt"]
    /\ layers = [i \in Inst |-> {}]
    /\ subcomponents = [i \in Inst |-> <<>>]
    /\ subpolygons = [i \in Inst |-> <<>>]
    /\ transform = [i \in Inst |-> Identity]
    /\ heap = <<>>
    /\ flat = NoFlat
    /\ out = Outcome("init", Ok, 0, 0)
    /\ GeomsIdle
    /\ BuildIdle

\* bbox = BBox(), BBox(xyarray) or BBox(xyarray, transformable)
InitBBox ==
    /\ args \in [MATHEMATIC_Y_AXIS : BOOLEAN, transformable : Transformables]
    /\ \E xyarray \in {NoArray} \cup {Some(a) : a \in Arrays} :
        /\ bbox = << BBox_init(xyarray, args.transformable) >>
        /\ added = (IF xyarray.given THEN xyarray.v ELSE <<>>)
    /\ ret = NoRet
    /\ marks = <<>>
    /\ dicts = <<>>
    /\ RestIdle

\* bbox.add_point(point)
AddPoint(point) ==
    /\ Len(added) < MaxPoints
    /\ bbox' = << add_point(bbox[1], point) >>
    /\ added' = Append(added, point)
    /\ ret' = Called("add_point", <<>>, Return(0))
    /\ UNCHANGED <<restVars, args, geomVars, buildVars, marks, dicts>>

\* bbox.add_xyarray(xyarray)
AddXyarray(xyarray) ==
    /\ Len(added) + Len(xyarray) <= MaxPoints
    /\ bbox' = << add_xyarray(bbox[1], xyarray) >>
    /\ added' = added \o xyarray
    /\ ret' = Called("add_xyarray", <<>>, Return(0))
    /\ UNCHANGED <<restVars, args, geomVars, buildVars, marks, dicts>>

\* bbox.width, bbox.top_left, ...: the caller reads a property
ReadProperty(name) ==
    /\ bbox' = << bbox[1] >>
    /\ ret' = Called(name, <<>>, Property(bbox[1], name))
    /\ UNCHANGED <<restVars, args, geomVars, buildVars, marks, dicts, added>>

\* bbox.interpolate(x_ratio, y_ratio)
Interpolate(x_ratio, y_ratio) ==
    /\ bbox' = << bbox[1] >>
    /\ ret' = Called("interpolate", <<x_ratio, y_ratio>>,
                     interpolate(bbox[1], x_ratio, y_ratio))
    /\ UNCHANGED <<restVars, args, geomVars, buildVars, marks, dicts, added>>

\* new = bbox.pad(...); a BBox returned by an earlier call is dropped
Pad(call) ==
    LET r == pad(<< bbox[1] >>, 1, call.x, call.y,
                 call.left, call.top, call.right, call.bottom)
    IN /\ bbox' = r.h
       /\ ret' = Called("pad", call, r)
       /\ UNCHANGED <<restVars, args, geomVars, buildVars, marks, dicts, added>>

NextBBox ==
    \/ \E point \in Points : AddPoint(point)
    \/ \E xyarray \in Arrays : AddXyarray(xyarray)
    \/ \E name \in EdgeQueries \cup Anchors : ReadProperty(name)
    \/ \E rp \in RatioPairs : Interpolate(rp[1], rp[2])
    \/ \E call \in PadCalls : Pad(call)

SpecBBox == InitBBox /\ [][NextBBox]_vars

\* ------------------------------------------------------- marks: compo.py
MarkNames == {"tip", "base", "stray"}

\* The Marks a template declares (class Marks of the Compo subclass)
MarkDecls == { {"tip", "base"}, {"tip"}, {} }

\* pc.DictList (the base of MarksContainer): item assignment and lookup
DictList_setitem(self, key, item) == DictSet(self, key, item)
DictList_getitem(self, key) ==
    IF key \in DOMAIN self THEN Return(self[key]) ELSE Raise(KeyError)

\* Compo.set_mark (lines 125-127)
set_mark(self_marks, name, point) ==
    DictList_setitem(self_marks, name, BoundPoint(point[1], point[2], None))

\* Compo.get_mark (lines 129-130)
get_mark(self_marks, name) == DictList_getitem(self_marks, name)

\* compo = X(): self.marks = MarksContainer() (lines 36-41)
InitMarks ==
    /\ args \in [Marks : MarkDecls]
    /\ marks = <<>>
    /\ bbox = <<>>
    /\ added = <<>>
    /\ ret = NoRet
    /\ dicts = <<>>
    /\ RestIdle

\* The generator, or any caller, runs compo.set_mark(name, point)
SetMark(name, point) ==
    /\ marks' = set_mark(marks, name, point)
    /\ ret' = Called("set_mark", name, Return(0))
    /\ UNCHANGED <<restVars, args, geomVars, buildVars, bbox, added, dicts>>

\* A caller runs compo.get_mark(name)
GetMark(name) ==
    /\ ret' = Called("get_mark", name, get_mark(marks, name))
    /\ UNCHANGED <<restVars, args, geomVars, buildVars, bbox, added, dicts, marks>>

NextMarks ==
    \/ \E name \in MarkNames, point \in {<<0, 0>>, <<4, 3>>} : SetMark(name, point)
    \/ \E name \in MarkNames : GetMark(name)

SpecMarks == InitMarks /\ [][NextMarks]_vars

\* ------------------------------------- the full mapping as a dict object
\* The design script holds a dict object and hands it to add_subcomponent.
\* dicts is the heap of dict objects; object 1 is the script's own dict.
ScriptDict == 1

\* The mappings the script writes: complete, partial and empty ones, and ones
\* the parser rejects
ScriptDicts ==
    { m \in DictShorthands : \A k \in DOMAIN m : m[k] # None }

\* The layer sets <<parent's, child's>> of the two instances
LayerPairs == { <<{"A", "B"}, {"A", "B"}>>, <<{"C"}, {"A", "B"}>>,
                <<{"A"}, {"A", "B"}>>, <<{"A", "B"}, {"C"}>> }

\* parse_subcomponent_layermap_shorthand on the dict object ref of the heap
\* h: `layermap = layermap_shorthand` (line 502) binds the very object, the
\* padding loop (lines 509-518) assigns into it, and it is returned (520)
parse_dict_object(h, parent_layers, child_layers, ref) ==
    LET r == parse_subcomponent_layermap_shorthand(
                 parent_layers, child_layers, [kind |-> "dict", map |-> h[ref]])
    IN IF r.status # Ok
       THEN [status |-> r.status, h |-> h, value |-> 0]
       ELSE [status |-> Ok, h |-> [h EXCEPT ![ref] = r.layermap], value |-> ref]

\* d = {...}: the script builds its mapping; parent and child are built
InitAlias ==
    /\ \E lp \in LayerPairs :
          args = [parent_layers |-> lp[1], child_layers |-> lp[2]]
    /\ dicts \in { <<m>> : m \in ScriptDicts }
    /\ ret = NoRet
    /\ bbox = <<>>
    /\ added = <<>>
    /\ marks = <<>>
    /\ RestIdle

\* parent.add_subcomponent(child, d) (lines 239-258): the Subcomponent keeps
\* the object the parser returned; ret.value is that reference
AttachDict ==
    /\ ret.op = "none"
    /\ LET r == parse_dict_object(dicts, args.parent_layers, args.child_layers,
                                  ScriptDict)
       IN /\ dicts' = r.h
          /\ ret' = Called("add_subcomponent", dicts[ScriptDict], r)
    /\ UNCHANGED <<restVars, args, geomVars, buildVars, bbox, added, marks>>

\* d[key] = value: the script goes on using its dict after the call
ScriptAssigns(key, value) ==
    /\ ret.op = "add_subcomponent"
    /\ dicts' = [dicts EXCEPT ![ScriptDict] = DictSet(@, key, value)]
    /\ ret' = [ret EXCEPT !.op = "d[key] = value"]
    /\ UNCHANGED <<restVars, args, geomVars, buildVars, bbox, added, marks>>

NextAlias ==
    \/ AttachDict
    \/ \E key, value \in LayerNames : ScriptAssigns(key, value)

SpecAlias == InitAlias /\ [][NextAlias]_vars

\* ------------------------------------- reducers.py: reduce_straights
MaxPath == 4        \* elements of the path handed to reduce_straights

UnboundLocalError == "UnboundLocalError"

\* A path element is a connection of some class with a target point (.to)
ConnClasses == {"StraightTo", "ElbowTo"}
Targets == { <<0, 0>>, <<1, 0>>, <<2, 0>>, <<1, 1>> }
Conns == [class : ConnClasses, to : Targets]

\* The paths of two to MaxPath elements
Paths == UNION { [1..n -> Conns] : n \in 2..MaxPath }

\* pc.iter.triplets: the windows of three consecutive elements
triplets(path) ==
    [i \in 1..(IF Len(path) < 3 THEN 0 ELSE Len(path) - 2) |->
        <<path[i], path[i + 1], path[i + 2]>>]

\* pc.colinear: the three points lie on one line
colinear(a, b, c) ==
    (b[1] - a[1]) * (c[2] - a[2]) = (b[2] - a[2]) * (c[1] - a[1])

\* The loop of reduce_straights (lines 10-16) over the triplets ts
RECURSIVE ReduceLoop(_, _)
ReduceLoop(newpath, ts) ==
    IF ts = <<>> THEN newpath
    ELSE LET before == Head(ts)[1]
             conn   == Head(ts)[2]
             after  == Head(ts)[3]
         IN  IF /\ conn.class = "StraightTo"
                /\ after.class = "StraightTo"
                /\ colinear(before.to, conn.to, after.to)
             THEN ReduceLoop(newpath, Tail(ts))
             ELSE ReduceLoop(Append(newpath, conn), Tail(ts))

\* reduce_straights (lines 6-19): `after` is the loop variable of the last
\* iteration, and is not bound when the loop body never ran
reduce_straights(path) ==
    LET ts      == triplets(path)
        newpath == ReduceLoop(<<path[1]>>, ts)
    IN  IF ts = <<>> THEN Raise(UnboundLocalError)
        ELSE Return(Append(newpath, ts[Len(ts)][3]))

InitReduce ==
    /\ args \in [path : Paths]
    /\ ret = NoRet
    /\ bbox = <<>>
    /\ added = <<>>
    /\ marks = <<>>
    /\ dicts = <<>>
    /\ RestIdle

\* newpath = reduce_straights(path)
Reduce ==
    /\ ret.op = "none"
    /\ ret' = Called("reduce_straights", args.path, reduce_straights(args.path))
    /\ UNCHANGED <<restVars, args, geomVars, buildVars, bbox, added, marks, dicts>>

NextReduce == Reduce

SpecReduce == InitReduce /\ [][NextReduce]_vars

\* ================================================================ claims
Children(i) == {subcomponents[i][k].component : k \in DOMAIN subcomponents[i]}

RECURSIVE ReachFrom(_, _)
ReachFrom(S, n) ==
    IF n = 0 THEN S ELSE ReachFrom(S \cup UNION {Children(i) : i \in S}, n - 1)

\* The direct and transitive subcomponents of instance c
Descendants(c) == ReachFrom(Children(c), MaxInst)

InvalidLayerMap ==
    {ErrStrNotOneLayer, ErrStrNotInParent, ErrKeysNotSubset, ErrValuesNotSubset}
AmbiguousLayerMap == {ErrMustSpecify}

\* C1: an add_subcomponent call never appends a child that is the parent
\* itself or that already has the parent among its direct or transitive
\* subcomponents.
C1_CyclicAttachmentRejected ==
    [][\A p \in Inst :
          Len(subcomponents'[p]) > Len(subcomponents[p]) =>
              LET c == subcomponents'[p][Len(subcomponents'[p])].component
              IN  c # p /\ p \notin Descendants(c)]_vars

\* C2: once the constructor of an instance has returned, its subpolygon and
\* subcomponent lists never change.
C2_SealedAfterBuild ==
    [][\A i \in Inst :
          pc[i] = "built" =>
              /\ subpolygons'[i] = subpolygons[i]
              /\ subcomponents'[i] = subcomponents[i]]_vars

\* The resolver specification: the drawn inputs and the attach just made
JustAttached == out.op = "add_subcomponent"
ArgP  == args.parent_layers
ArgC  == args.child_layers
ArgSh == args.shorthand
StoredMap == subcomponents[Parent][1].layermap
AttachedOnce ==
    /\ out.status = Ok
    /\ Len(subcomponents[Parent]) = 1
    /\ subcomponents[Parent][1].component = Child

\* C3: the scenario of the specification. X (layers {A,B}, one polygon on
\* each) attached to Y (layers {C}) under {A: C, B: None} is accepted, and
\* flatten(Y) is exactly X's A-polygon tagged C.
ScenarioArgs ==
    /\ ArgP = {"C"}
    /\ ArgC = {"A", "B"}
    /\ ArgSh = [kind |-> "dict",
                map |-> [k \in {"A", "B"} |-> IF k = "A" THEN "C" ELSE None]]

C3_ScenarioExplicitDiscard ==
    ScenarioArgs =>
        /\ JustAttached => AttachedOnce
        /\ (flat.of = Parent /\ subcomponents[Parent] # <<>>) =>
               flat.vals = <<[val |-> 1, layer |-> "C"]>>

\* C4: get_subpolygons is copy-on-read and repeatable. No stored polygon is
\* changed by a call or by writing into a returned list; every returned
\* polygon is an object of its own, none of the stored ones; a second call
\* on the unmutated tree returns the same coordinates and layers in the same
\* order as the first, also after the caller wrote into the first list; and
\* the list is the subcomponents' geometry in attach order, relabelled and
\* placed, followed by the own subpolygons in attach order.
FlatVals(i) ==
    LET r == Component_get_subpolygons(Stored(heap), i, 1)
    IN  [k \in 1..Len(r.res) |->
           [val |-> r.h[r.res[k].polygon], layer |-> r.res[k].layer]]

RECURSIVE ExpectedInner(_, _)
ExpectedInner(scs, t) ==
    IF scs = <<>> THEN <<>>
    ELSE LET sc   == Head(scs)
             kept == SelectSeq(FlatVals(sc.component),
                               LAMBDA e : sc.layermap[e.layer] # None)
         IN  [k \in 1..Len(kept) |->
                 [val   |-> ApplyPlacement(t, kept[k].val),
                  layer |-> sc.layermap[kept[k].layer]]]
             \o ExpectedInner(Tail(scs), t)

ExpectedOwn(i) ==
    [k \in 1..Len(subpolygons[i]) |->
        [val   |-> ApplyPlacement(transform[i], subpolygons[i][k].polygon),
         layer |-> subpolygons[i][k].layer]]

C4_CopyOnReadRepeatable ==
    /\ \A p \in 1..NumStored : heap[p] = p
    /\ \A k \in DOMAIN flat.res : flat.res[k].polygon > NumStored
    /\ flat.phase = "again" => flat.vals = flat.prev
    /\ (flat.phase \in {"first", "again"} /\ flat.err = Ok) =>
           flat.vals = ExpectedInner(subcomponents[flat.of], transform[flat.of])
                       \o ExpectedOwn(flat.of)

C4_Witness ==
    /\ flat.phase = "again"
    /\ flat.err = Ok
    /\ subcomponents[flat.of] # <<>>
    /\ subpolygons[flat.of] # <<>>
    /\ Len(flat.vals) >= 2

C8_AbsentSubsetIdentity ==
    (JustAttached /\ ArgSh.kind = "none" /\ ArgC \subseteq ArgP) =>
        /\ AttachedOnce
        /\ StoredMap = [l \in ArgC |-> l]
        /\ out.warnings = 0

C8_Witness ==
    /\ JustAttached
    /\ AttachedOnce
    /\ ArgSh.kind = "none"
    /\ ArgC \subseteq ArgP
    /\ ArgC # ArgP
    /\ Cardinality(ArgC) = 2

C10_SingleName ==
    (JustAttached /\ ArgSh.kind = "str") =>
        IF Cardinality(ArgC) = 1 /\ ArgSh.name \in ArgP
        THEN /\ AttachedOnce
             /\ StoredMap = [l \in ArgC |-> ArgSh.name]
        ELSE /\ out.status \in InvalidLayerMap
             /\ subcomponents[Parent] = <<>>

C10_Witness ==
    /\ JustAttached
    /\ AttachedOnce
    /\ ArgSh.kind = "str"
    /\ ArgSh.name \notin ArgC

\* The subpolygon calls: the call just made
AmbiguousLayer == {ErrPolyMultiple}
CallOf    == args.of
CallLayer == args.layer

LayersDeclared ==
    \A i \in Inst : \A k \in DOMAIN subpolygons[i] :
        subpolygons[i][k].layer \in layers[i]

\* C11 as claimed: every entry of every subpolygon list carries a layer of
\* the instance's layer set, after successful and failing add_subpolygon /
\* add_subpolygons calls alike; and every call naming a layer outside that
\* set fails and appends nothing.
C11_SubpolygonLayers_Claimed ==
    /\ []LayersDeclared
    /\ [][(args'.layer \notin layers[args'.of] \cup {None}) =>
             /\ out'.status # Ok
             /\ subpolygons' = subpolygons]_vars

\* C11 as amended: the same, except that the call fails when it is handed
\* at least one polygon (an add_subpolygons call on an empty list or group
\* returns normally, having appended nothing).
C11_SubpolygonLayers ==
    /\ []LayersDeclared
    /\ [][(args'.layer \notin layers[args'.of] \cup {None}) =>
             /\ subpolygons' = subpolygons
             /\ NumPolygons(args'.polys) >= 1 => out'.status # Ok]_vars

C11_Witness ==
    /\ out.op = "add_subpolygons"
    /\ CallLayer \notin layers[CallOf] \cup {None}
    /\ NumPolygons(args.polys) = 2
    /\ out.status = ErrPolyNotFound
    /\ Len(subpolygons[CallOf]) = 1

\* C12: add_subpolygon with no layer given appends the polygon on the
\* parent's sole layer when the parent has exactly one layer, and otherwise
\* fails with AmbiguousLayer and leaves the subpolygon list as it was.
C12_UnlabelledSubpolygon ==
    [][(out'.op = "add_subpolygon" /\ args'.layer = None) =>
          LET i == args'.of
          IN  IF Cardinality(layers[i]) = 1
              THEN /\ out'.status = Ok
                   /\ Len(subpolygons'[i]) = Len(subpolygons[i]) + 1
                   /\ SubSeq(subpolygons'[i], 1, Len(subpolygons[i])) = subpolygons[i]
                   /\ subpolygons'[i][Len(subpolygons'[i])].layer = Sole(layers[i])
                   /\ \A j \in Inst \ {i} : subpolygons'[j] = subpolygons[j]
              ELSE /\ out'.status \in AmbiguousLayer
                   /\ subpolygons' = subpolygons]_vars

C12_Witness ==
    /\ out.op = "add_subpolygon"
    /\ CallLayer = None
    /\ out.status = Ok
    /\ Len(subpolygons[CallOf]) = 2
    /\ subpolygons[CallOf][2].layer = "C"

\* One build: the drawn inputs
Mro     == args.mro
Values  == args.values
Resolved == pc[Subject] \in {"making", "built"}

\* The names a chain declares, and a name's default under shadowing by name:
\* that of the most derived class declaring it
ChainNames(mro) == UNION {DOMAIN mro[k] : k \in DOMAIN mro}
MostDerived(mro, n) ==
    mro[CHOOSE k \in DOMAIN mro :
            /\ n \in DOMAIN mro[k]
            /\ \A j \in DOMAIN mro : n \in DOMAIN mro[j] => k <= j][n]
UnknownKeys == DOMAIN Values.map \ ChainNames(Mro)

\* C13: a build whose overrides hold a key that no class of the chain
\* declares fails with UnknownOption, the error names all those keys, _make
\* is not entered and no instance is produced; overrides with declared keys
\* only never raise UnknownOption.
C13_UnknownOption ==
    (out.op # "init" /\ Values.kind = "dict") =>
        IF UnknownKeys # {}
        THEN /\ out.status = ErrUnknownOption
             /\ trace.unknown = UnknownKeys
             /\ pc[Subject] = "failed"
             /\ trace.makes = 0
        ELSE /\ out.status # ErrUnknownOption
             /\ trace.unknown = {}

C13_Witness ==
    /\ out.status = ErrUnknownOption
    /\ trace.unknown = {"bogus"}
    /\ DOMAIN Values.map = {"bogus", "width"}
    /\ ChainNames(Mro) = {"width", "height"}

\* C14: the resolved options have exactly the declared names as keys; each
\* value is the override's where the overrides name the option and the
\* declared default (the most derived declaration) otherwise.
C14_ResolvedOptions ==
    Resolved =>
        /\ DOMAIN options[Subject] = ChainNames(Mro)
        /\ \A n \in DOMAIN options[Subject] :
              options[Subject][n] =
                  IF Values.kind = "dict" /\ n \in DOMAIN Values.map
                  THEN Values.map[n]
                  ELSE MostDerived(Mro, n)

\* C15: with no overrides, the resolved value of a name that a refining
\* template declares again is the most derived declaration's default, and a
\* name only an ancestor declares keeps the ancestor's default.
C15_DescendantShadows ==
    (Resolved /\ Values.kind = "none") =>
        \A n \in ChainNames(Mro) :
            /\ n \in DOMAIN options[Subject]
            /\ options[Subject][n] = MostDerived(Mro, n)

\* C16: _make is entered at most once per build, and once in every build
\* that gets past option resolution, with both lists empty, and is handed
\* the resolved options; a build with no overrides of a template whose
\* generator takes the options as its parameter succeeds.
C16_GeneratorInvocation ==
    /\ trace.makes <= 1
    /\ Resolved => /\ trace.makes = 1
                   /\ trace.empty
                   /\ trace.passed = <<options[Subject]>>
    /\ (out.op # "init" /\ Values.kind = "none") => out.status # ErrTypeError

\* C17: once option resolution or a call of the generator has raised, the
\* build never returns an instance; a build that returned one has entered
\* its generator once and run it to the end of its body.
C17_AllOrNothing ==
    /\ trace.raised => pc[Subject] # "built"
    /\ pc[Subject] = "built" =>
          /\ trace.makes = 1
          /\ trace.pos = Len(args.body) + 1
          /\ Len(subpolygons[Subject]) = Len(args.body)

C17_Witness ==
    /\ trace.raised
    /\ pc[Subject] = "failed"
    /\ out.op = "add_subpolygon"
    /\ Len(subpolygons[Subject]) = 1
    /\ trace.pos = 3

\* C18: after registration, a generator parameter with no declared option
\* has a synthesized entry (its default, and the type of its default) when
\* it has a default, and no default and no annotation when it has none; a
\* parameter with a declared option gives the option its default (or Empty)
\* and as type its annotation, else the type of its default, else Empty.
C18_SynthesizedOptionSpecs ==
    out.op = "__init_subclass__" =>
        \A k \in DOMAIN args.params :
            LET param == args.params[k]
                n == param.name
                inferred == IF param.default # Empty
                            THEN TypeOf(param.default) ELSE Empty
            IN  IF n \notin args.declared
                THEN IF param.default # Empty
                     THEN /\ n \in DOMAIN registry
                          /\ registry[n] = [default |-> param.default,
                                            annot |-> inferred]
                     ELSE \/ n \notin DOMAIN registry
                          \/ registry[n] = [default |-> Empty, annot |-> Empty]
                ELSE /\ n \in DOMAIN registry
                     /\ registry[n].default = param.default
                     /\ registry[n].annot =
                            IF param.annotation # Empty
                            THEN param.annotation ELSE inferred

\* The stored polygons of a subcomponent that has no subcomponents itself,
\* as they must come out of its parent p: placed by the child's transform,
\* then by p's, relabelled, the discarded ones left out
RECURSIVE LeavesPlaced(_, _)
LeavesPlaced(p, scs) ==
    IF scs = <<>> THEN <<>>
    ELSE LET sc   == Head(scs)
             c    == sc.component
             kept == SelectSeq(subpolygons[c],
                               LAMBDA e : sc.layermap[e.layer] # None)
         IN  [k \in 1..Len(kept) |->
                 [val   |-> ApplyPlacement(transform[p],
                                ApplyPlacement(transform[c], kept[k].polygon)),
                  layer |-> sc.layermap[kept[k].layer]]]
             \o LeavesPlaced(p, Tail(scs))

\* C19: in get_subpolygons of p, the geometry of a subcomponent is placed
\* innermost first: by the subcomponent's own transform, then by p's. The
\* entries that come from the subcomponents are what flattening each
\* subcomponent on its own gives, with p's transform applied to each, in the
\* same order; p's own subpolygons follow.
C19_InnermostFirst ==
    (flat.phase = "first" /\ flat.err = Ok) =>
        LET p     == flat.of
            inner == ExpectedInner(subcomponents[p], transform[p])
        IN  /\ Len(flat.vals) = Len(inner) + Len(subpolygons[p])
            /\ SubSeq(flat.vals, 1, Len(inner)) = inner
            /\ (\A k \in DOMAIN subcomponents[p] :
                   subcomponents[subcomponents[p][k].component] = <<>>)
               => inner = LeavesPlaced(p, subcomponents[p])

C19_Witness ==
    /\ flat.phase = "first"
    /\ flat.err = Ok
    /\ Len(subcomponents[flat.of]) = 1
    /\ transform[flat.of] = <<2, 1>>
    /\ LET c == subcomponents[flat.of][1].component
       IN  /\ transform[c] = <<1, 3>>
           /\ subcomponents[c] = <<>>
           /\ Len(subpolygons[c]) = 2
           /\ Len(flat.vals) = 2
           /\ flat.vals[1].val = 2 * (subpolygons[c][1].polygon + 3) + 1

\* C20: get_subpolygons never runs into the recursion limit: on every
\* reachable tree the walk ends after visiting each attachment finitely often.
C20_FlattenTerminates ==
    flat.err # RecursionError

\* ---------------------------------------------------------------- BBox.py
\* The set P of points handed to the BBox, and its extremes
AddedPoints == {added[k] : k \in DOMAIN added}
MinOf(S) == CHOOSE m \in S : \A v \in S : m <= v
MaxOf(S) == CHOOSE m \in S : \A v \in S : m >= v
Xs == {p[1] : p \in AddedPoints}
Ys == {p[2] : p \in AddedPoints}

\* C21: after any sequence of add_point / add_xyarray calls and the
\* constructor, with P the set of points handed over and P not empty, the
\* bounds are the extremes of P on each axis, width is max x - min x and
\* height is max y - min y, whatever the order of the points was.
C21_BoundsAreExtremes ==
    AddedPoints # {} =>
        /\ bbox[1].min_x = MinOf(Xs)
        /\ bbox[1].max_x = MaxOf(Xs)
        /\ bbox[1].min_y = MinOf(Ys)
        /\ bbox[1].max_y = MaxOf(Ys)
        /\ ret.op = "width" => ret.status = Ok /\ ret.value = MaxOf(Xs) - MinOf(Xs)
        /\ ret.op = "height" => ret.status = Ok /\ ret.value = MaxOf(Ys) - MinOf(Ys)

\* Four points handed over in an order that is sorted on neither axis, a
\* point repeated, then the width read
C21_Witness ==
    /\ Len(added) = MaxPoints
    /\ added[1] = <<4, 3>>
    /\ added[2] = <<0, 0>>
    /\ added[3] = <<4, 3>>
    /\ added[4] = <<0, 3>>
    /\ ret.op = "width"
    /\ ret.value = 4

DerivedQueries == EdgeQueries \cup Anchors \cup {"interpolate", "pad"}

\* C22: a BBox that never received a point raises EmptyBBox on width, height,
\* left, right, top, bottom, on interpolate with any ratios, on each of the
\* nine anchors and on pad; a BBox that received a point raises it on none.
C22_EmptyRejectsQueries ==
    ret.op \in DerivedQueries =>
        /\ added = <<>> => ret.status = EmptyBBoxException
        /\ added # <<>> => ret.status = Ok

C22_Witness ==
    /\ added = <<>>
    /\ ret.op = "interpolate"
    /\ ret.args = <<3, -1>>
    /\ ret.status = EmptyBBoxException

TopOf == IF MATHEMATIC_Y_AXIS THEN MaxOf(Ys) ELSE MinOf(Ys)
BottomOf == IF MATHEMATIC_Y_AXIS THEN MinOf(Ys) ELSE MaxOf(Ys)

\* C24: for both values of the orientation flag the nine anchors agree with
\* the edge queries: the x of *_left, *_mid (and mid), *_right is left,
\* (left + right) / 2, right; the y of top_* is top, of bot_* is bottom, of
\* mid_* and mid is (min_y + max_y) / 2; the flag only swaps which of min_y
\* and max_y is top and bottom.  The box of (0,0), (4,0), (4,3), (0,3) has
\* width 4, height 3, mid (2, 1.5) and, with y up, top_left (0, 3).
C24_AnchorsAgreeWithEdges ==
    AddedPoints # {} =>
        /\ ret.op = "left" => ret.value = MinOf(Xs)
        /\ ret.op = "right" => ret.value = MaxOf(Xs)
        /\ ret.op = "top" => ret.value = TopOf
        /\ ret.op = "bottom" => ret.value = BottomOf
        /\ ret.op \in {"top_left", "mid_left", "bot_left"} =>
              ret.value.x = 2 * MinOf(Xs)
        /\ ret.op \in {"top_mid", "mid", "bot_mid"} =>
              ret.value.x = MinOf(Xs) + MaxOf(Xs)
        /\ ret.op \in {"top_right", "mid_right", "bot_right"} =>
              ret.value.x = 2 * MaxOf(Xs)
        /\ ret.op \in {"top_left", "top_mid", "top_right"} =>
              ret.value.y = 2 * TopOf
        /\ ret.op \in {"mid_left", "mid", "mid_right"} =>
              ret.value.y = MinOf(Ys) + MaxOf(Ys)
        /\ ret.op \in {"bot_left", "bot_mid", "bot_right"} =>
              ret.value.y = 2 * BottomOf
        /\ AddedPoints = Points =>
              /\ ret.op = "width" => ret.value = 4
              /\ ret.op = "height" => ret.value = 3
              /\ ret.op = "mid" => ret.value.x = 4 /\ ret.value.y = 3
              /\ (ret.op = "top_left" /\ MATHEMATIC_Y_AXIS) =>
                    ret.value.x = 0 /\ ret.value.y = 6

\* The scenario's box, y down: top_mid is on the min_y edge
C24_Witness ==
    /\ added = << <<0, 0>>, <<4, 0>>, <<4, 3>>, <<0, 3>> >>
    /\ ~MATHEMATIC_Y_AXIS
    /\ ret.op = "top_mid"
    /\ ret.value.x = 4
    /\ ret.value.y = 0

\* C25: pad returns a BBox grown additively: with x the uniform padding, the
\* vertical padding is y whenever y is supplied (0 included) and x only when
\* y is left out; min_x goes down by x + left, max_x up by x + right, min_y
\* down by vertical + bottom, max_y up by vertical + top.
C25_PadGrowsAdditively ==
    (ret.op = "pad" /\ ret.status = Ok) =>
        LET call == ret.args
            vertical == IF call.y.given THEN call.y.v ELSE call.x
            new == bbox[ret.value]
        IN  /\ new.min_x = MinOf(Xs) - (call.x + call.left)
            /\ new.max_x = MaxOf(Xs) + (call.x + call.right)
            /\ new.min_y = MinOf(Ys) - (vertical + call.bottom)
            /\ new.max_y = MaxOf(Ys) + (vertical + call.top)

\* C26: pad never changes the BBox it is called on, neither its bounds nor
\* its binding, and returns a distinct BBox that is always unbound, so the
\* anchors of the padded BBox are plain points; the anchors of a bound BBox
\* carry a reference to exactly the placement it is bound to.
C26_PadLeavesSelfAndUnbinds ==
    /\ [][ret'.op = "pad" => bbox'[1] = bbox[1]]_vars
    /\ []((ret.op = "pad" /\ ret.status = Ok) =>
            /\ ret.value # 1
            /\ bbox[1].transformable = args.transformable
            /\ bbox[ret.value].transformable = None
            /\ \A name \in Anchors :
                  Property(bbox[ret.value], name).value.kind = "Point")
    /\ []((ret.op \in Anchors /\ ret.status = Ok /\ args.transformable # None) =>
            /\ ret.value.kind = "BoundPoint"
            /\ ret.value.transformable = args.transformable)

\* A bound BBox is padded
C26_Witness ==
    /\ ret.op = "pad"
    /\ ret.status = Ok
    /\ ret.args.x = 1
    /\ args.transformable # None
    /\ bbox[1].transformable = args.transformable
    /\ Len(bbox) = 2
    /\ bbox[2].min_x = bbox[1].min_x - 1

\* C27: get_mark(name) returns the point that was set for the mark when name
\* is a mark the template declares, and fails (UnknownMark) for every name
\* the template does not declare, whatever set_mark calls were made before.
C27_GetMarkDeclaredOnly ==
    ret.op = "get_mark" =>
        /\ (ret.args \in args.Marks /\ ret.args \in DOMAIN marks) =>
              ret.status = Ok /\ ret.value = marks[ret.args]
        /\ ret.args \notin args.Marks => ret.status # Ok

\* C28: add_subcomponent called with a full mapping does not modify the
\* caller's mapping object, and the layermap the attachment stores is
\* independent of that object: it is the mapping resolved at the call
\* whatever the caller does to its own mapping afterwards.
C28_CallerMappingUntouched ==
    /\ [][ret'.op = "add_subcomponent" => dicts'[ScriptDict] = dicts[ScriptDict]]_vars
    /\ []((ret.op # "none" /\ ret.status = Ok) =>
             /\ ret.value # ScriptDict
             /\ dicts[ret.value] = PadLayermap(args.child_layers, ret.args))

\* C29: every entry of the list get_subpolygons returns for an instance
\* carries a layer of that instance's own declared layer set: never the
\* discard marker, never a layer only a descendant declares, whatever the
\* depth of nesting.
C29_FlattenLayersAreOwn ==
    (flat.phase # "none" /\ flat.err = Ok) =>
        \A k \in DOMAIN flat.vals :
            /\ flat.vals[k].layer # None
            /\ flat.vals[k].layer \in layers[flat.of]

\* The scenario of the specification: Y (layers {C}) holds X (layers {A,B})
\* under {A: C}, B padded to discard; X holds a polygon on A and one on B
C29_Witness ==
    /\ flat.phase = "first"
    /\ flat.err = Ok
    /\ layers[flat.of] = {"C"}
    /\ Len(subcomponents[flat.of]) = 1
    /\ subpolygons[flat.of] = <<>>
    /\ LET sc == subcomponents[flat.of][1]
       IN  /\ layers[sc.component] = {"A", "B"}
           /\ sc.layermap["A"] = "C"
           /\ sc.layermap["B"] = None
           /\ subcomponents[sc.component] = <<>>
           /\ {subpolygons[sc.component][k].layer :
                    k \in DOMAIN subpolygons[sc.component]} = {"A", "B"}
    /\ Len(flat.vals) = 1
    /\ flat.vals[1].layer = "C"

\* The interior elements the claim removes: a StraightTo immediately followed
\* by a StraightTo whose target is colinear with the targets before and after
Redundant(path, i) ==
    /\ path[i].class = "StraightTo"
    /\ path[i + 1].class = "StraightTo"
    /\ colinear(path[i - 1].to, path[i].to, path[i + 1].to)

RECURSIVE KeptInterior(_, _)
KeptInterior(path, i) ==
    IF i >= Len(path) THEN <<>>
    ELSE (IF Redundant(path, i) THEN <<>> ELSE <<path[i]>>)
         \o KeptInterior(path, i + 1)

\* C30: for every path of at least two elements reduce_straights returns,
\* without an error, a path whose first element is path[0], whose last is
\* path[-1] and whose interior is the input's interior in order without the
\* redundant straights; the input path is left as it was.
C30_ReduceStraights ==
    ret.op = "reduce_straights" =>
        /\ ret.status = Ok
        /\ ret.args = args.path
        /\ ret.value = <<args.path[1]>> \o KeptInterior(args.path, 2)
                          \o <<args.path[Len(args.path)]>>

\* C5: Compo.get_geoms, and the bbox property that calls it, is copy-on-read:
\* a call leaves every instance's own self.geoms (the dict and each list in
\* it) as it was, and a second call on the unmutated instance returns the
\* same per-layer lists as the first.
C5_GetGeomsCopyOnRead ==
    /\ [](got.again => got.vals = got.prev)
    /\ [][out'.op \in {"get_geoms", "bbox"} =>
             \A c \in Inst : OwnContents(c)' = OwnContents(c)]_vars

====
